---- MODULE Spec2Model ----
(***************************************************************************)
(* The relay of src/server/index.js: one client WebSocket (ws) accepted by *)
(* wss.on('connection'), the upstream WebSocket (geminiWs) it opens on the *)
(* setup frame, and the handlers that forward frames between the two.      *)
(*                                                                         *)
(* The WebSocket objects are those of the `ws` package (version 8): a      *)
(* readyState of CONNECTING, OPEN, CLOSING or CLOSED; 'message' events are *)
(* emitted for every data frame received until the socket has closed, also *)
(* after close() was called locally; close(code, reason) returns at once   *)
(* in CLOSING and CLOSED, and otherwise sets CLOSING and then throws a     *)
(* TypeError for a status code that may not be sent (1004, 1005, 1006);    *)
(* send() on a socket that is CLOSING or CLOSED transmits nothing.         *)
(***************************************************************************)
EXTENDS Integers, Sequences, FiniteSets, TLC

\* ---------------------------------------------------------------- bounds
MaxClientFrames == 2    \* frames the client sends on its connection
MaxUpstreamFrames == 2  \* frames upstream sends on its connection

\* ------------------------------------------------------ program constants
ProtocolErrorCode == 1003   \* ws.close(1003, 'Protocol error: ...')
InvalidFormatCode == 1007   \* ws.close(1007, 'Invalid message format')
UpstreamErrorCode == 1011   \* ws.close(1011, 'Error connecting to Gemini API')

ProtocolErrorReason == "Protocol error: First message must be a setup message"
InvalidFormatReason == "Invalid message format"
UpstreamErrorReason == "Error connecting to Gemini API"

\* ----------------------------------------------------------------- frames
\* Client frames by what JSON.parse(message.toString()) makes of them:
\*   setupA, setupB  JSON objects with a `setup` member (two payloads)
\*   realtime        a JSON object without a `setup` member
\*   jsonNull        the JSON text `null`: parses, and data.setup throws
\*   binary          bytes that are not JSON text: JSON.parse throws
ClientFrames == {"setupA", "setupB", "realtime", "jsonNull", "binary"}

\* Frames upstream sends.
UpstreamFrames == {"setupComplete", "serverContent"}

\* The (code, reason) pairs of upstream 'close' events: a normal close, a
\* policy close, and a connection lost without a close frame (1006, the code
\* ws reports when no close frame was received).
UpstreamCloses ==
    { [code |-> 1000, reason |-> "done"],
      [code |-> 1008, reason |-> "policy"],
      [code |-> 1006, reason |-> ""] }

NoClose == [code |-> 0, reason |-> "none"]
NoEvent == [type |-> "none", code |-> 0, reason |-> "none", wsOpen |-> FALSE]
NoCause == [by |-> "none", frame |-> "none", upstream |-> "none"]

VARIABLES
    wsState,        \* ws.readyState of the client connection
    wsClose,        \* the (code, reason) of the close frame sent to the client
    geminiWs,       \* "null", or geminiWs.readyState
    setupReceived,  \* the flag of the connection's closure
    message,        \* the frame the upstream 'open' handler closes over
    clientQueue,    \* client frames in flight to the relay
    clientSent,     \* number of frames the client has sent
    clientEnded,    \* the client has closed its end of the connection
    upstreamQueue,  \* upstream frames in flight to the relay
    upstreamSent,   \* number of frames upstream has sent
    toUpstream,     \* frames the relay sent on geminiWs, in order
    toClient,       \* frames the relay sent on ws, in order
    geminiErrored,  \* geminiWs has emitted 'error': its socket is destroyed
    crashed,        \* an exception left a handler uncaught: the process exited
    \* history (read by the properties only)
    handled,        \* frames the client 'message' handler has processed
    dueForward,     \* those it processed while geminiWs was OPEN
    fromUpstream,   \* frames the upstream 'message' handler has processed
    upstreamOpens,  \* number of `new WebSocket(geminiUrl)` evaluated
    openReported,   \* geminiWs has emitted 'open'
    upstreamEvent,  \* the last upstream 'close' or 'error' event handled, and
                    \* whether ws was OPEN when its handler ran
    closeCause      \* the handler whose ws.close() closed the client

relayVars ==
        << wsState, wsClose, geminiWs, setupReceived, message, clientQueue,
           clientSent, clientEnded, upstreamQueue, upstreamSent, toUpstream,
           toClient, geminiErrored, crashed, handled, dueForward, fromUpstream,
           upstreamOpens, openReported, upstreamEvent, closeCause >>

(***************************************************************************)
(* The browser side. Each component below has its own specification; the  *)
(* relay's specification leaves them in their initial state.              *)
(***************************************************************************)

\* ------------------------------------------------------- AudioRecorder
\* src/src/lib/audio-recorder.ts
MaxStartCalls == 4   \* start() calls made on one recorder
MaxStopCalls == 2    \* stop() calls made on one recorder
MaxChunks == 2       \* chunks the recording worklet posts

maxInitializationAttempts == 3

Calls == 1..MaxStartCalls

\* The awaits of the promise `starting`, in order.
InitSteps == << "getUserMedia", "audioContext", "addModule1", "addModule2",
               "resume" >>

VARIABLES
    mediaApi,       \* navigator.mediaDevices.getUserMedia exists
    initStep,       \* "none" (starting is null), or the await the promise
                    \* `starting` is suspended at
    deferredStops,  \* handleStop reactions attached to `starting` by stop()
    stream,         \* this.stream is set
    source,         \* this.source is set
    recordingWorklet, \* this.recordingWorklet is set
    vuWorklet,      \* this.vuWorklet is set
    recording,      \* this.recording
    initializationAttempts,
    feeding,        \* the source is connected to the recording worklet
    liveTracks,     \* microphone streams acquired whose tracks are not stopped
    portQueue,      \* chunks posted by the worklet, not yet delivered
    callStatus,     \* per start() call: unused, pending, fulfilled, rejected
    \* history (read by the properties only)
    callKind,       \* per start() call: the branch of start() it took
    callJoined,     \* per start() call: the earliest start() in flight
                    \* when it was made, 0 if none
    callFail,       \* per start() call: its initialization failed
    callStopped,    \* per start() call: stop() ran between the previous
                    \* start() and it
    stopInFlight,   \* stop() was called while the last initialization was
                    \* in flight
    getUserMediaCalls, \* getUserMedia invocations by start()
    errorEvents,    \* "error" events emitted
    failures,       \* initializations that failed
    stopCalls,      \* stop() calls made
    stopsSinceStart, \* stop() calls made since the last start()
    chunksPosted,   \* chunks the worklet has posted
    dataEvents,     \* "data" events emitted
    callRecording,  \* per start() call: `recording` when it was made
    callQuiet,      \* per start() call: it changed no field, acquired no
                    \* device and emitted nothing
    idleStops,      \* stop() calls with no start in flight since the last
                    \* start()
    afterFirstStop, \* the fields after the first of those stop() calls
    callAtLimit,    \* per start() call: made with nothing in flight, not
                    \* recording, and the attempt counter at its maximum
    callUntouched,  \* per start() call: it changed no field and acquired
                    \* no device
    callErrors,     \* per start() call: "error" events it emitted itself
    callStopAfter,  \* per start() call: stop() was called while it was
                    \* pending
    callRecAtFulfil \* per start() call: recording with a live stream held
                    \* at the moment it fulfilled

recVars == << mediaApi, initStep, deferredStops, stream, source,
              recordingWorklet, vuWorklet, recording, initializationAttempts,
              feeding, liveTracks, portQueue, callStatus, callKind, callJoined,
              callFail, callStopped, stopInFlight, getUserMediaCalls, errorEvents, failures, stopCalls,
              stopsSinceStart, chunksPosted, dataEvents, callRecording,
              callQuiet, idleStops, afterFirstStop,
              callAtLimit, callUntouched, callErrors, callStopAfter,
              callRecAtFulfil >>

\* The fields of the recorder.
Fields ==
    [stream |-> stream, source |-> source,
     recordingWorklet |-> recordingWorklet, vuWorklet |-> vuWorklet,
     recording |-> recording, feeding |-> feeding, liveTracks |-> liveTracks,
     starting |-> initStep, deferredStops |-> deferredStops,
     initializationAttempts |-> initializationAttempts]

RecInit ==
    /\ mediaApi \in BOOLEAN
    /\ initStep = "none"
    /\ deferredStops = 0
    /\ stream = FALSE
    /\ source = FALSE
    /\ recordingWorklet = FALSE
    /\ vuWorklet = FALSE
    /\ recording = FALSE
    /\ initializationAttempts = 0
    /\ feeding = FALSE
    /\ liveTracks = 0
    /\ portQueue = 0
    /\ callStatus = [c \in Calls |-> "unused"]
    /\ callKind = [c \in Calls |-> "none"]
    /\ callJoined = [c \in Calls |-> 0]
    /\ callFail = [c \in Calls |-> FALSE]
    /\ callStopped = [c \in Calls |-> FALSE]
    /\ stopInFlight = FALSE
    /\ getUserMediaCalls = 0
    /\ errorEvents = 0
    /\ failures = 0
    /\ stopCalls = 0
    /\ stopsSinceStart = 0
    /\ chunksPosted = 0
    /\ dataEvents = 0
    /\ callRecording = [c \in Calls |-> FALSE]
    /\ callQuiet = [c \in Calls |-> FALSE]
    /\ idleStops = 0
    /\ afterFirstStop = Fields
    /\ callAtLimit = [c \in Calls |-> FALSE]
    /\ callUntouched = [c \in Calls |-> FALSE]
    /\ callErrors = [c \in Calls |-> 0]
    /\ callStopAfter = [c \in Calls |-> FALSE]
    /\ callRecAtFulfil = [c \in Calls |-> FALSE]

\* A recorder nobody uses, in a browser with the media API.
RecIdle == RecInit /\ mediaApi = TRUE

\* --------------------------------------------------------- ControlTray
\* src/src/components/control-tray/ControlTray.tsx
MaxEffects == 8      \* runs of the audio recording effect, the mount included

Effects == 1..MaxEffects

VARIABLES
    connected,      \* `connected` of useLiveAPI, as the tray renders it
    muted,          \* useState `muted`
    micInitialized, \* micInitializedRef.current
    micStarting,    \* isMicStartingRef.current: "no", or who asked for the
                    \* permission ("mount", "toggle")
    curEffect,      \* the latest run of the audio recording effect
    cleaned,        \* its cleanup has run (a re-render is being committed)
    effConnected,   \* per run: `connected` in its closure
    effMuted,       \* per run: `muted` in its closure
    isActive,       \* per run: its local `isActive`
    listening,      \* per run: its onData is a "data" listener
    effCall,        \* per run: the start() call it awaits, 0 if none
    sendsPerChunk,  \* history: per "data" event, the sendRealtimeInput calls
    offSends        \* history: sendRealtimeInput calls made by onData while
                    \* the tray was muted or disconnected

trayVars == << connected, muted, micInitialized, micStarting, curEffect,
               cleaned, effConnected, effMuted, isActive, listening, effCall,
               sendsPerChunk, offSends >>

\* The tray after its mount: the permission request of initializeMicrophone
\* is in flight and the audio recording effect has run once, disconnected.
TrayInit ==
    /\ connected = FALSE
    /\ muted = FALSE
    /\ micInitialized = FALSE
    /\ micStarting = "mount"
    /\ curEffect = 1
    /\ cleaned = FALSE
    /\ effConnected = [e \in Effects |-> FALSE]
    /\ effMuted = [e \in Effects |-> FALSE]
    /\ isActive = [e \in Effects |-> FALSE]
    /\ listening = [e \in Effects |-> FALSE]
    /\ effCall = [e \in Effects |-> 0]
    /\ sendsPerChunk = << >>
    /\ offSends = 0

\* ---------------------------------- useLiveAPI, its client, Altair
\* src/src/hooks/use-live-api.ts, src/unnamed/part_001; the client
\* (lib/multimodal-live-client) after section 4.1 of the specification.
MaxConnects == 3     \* connect() calls of the hook; each opens one transport
MaxToolCalls == 2    \* "toolcall" events
MaxInbound == 3      \* handshake-relevant frames the client receives
MaxMediaCalls == 2   \* sendRealtimeInput calls

Connects == 1..MaxConnects

\* The function-call ids a tool call may carry.
ToolCallIds == { {}, {"a"}, {"a", "b"} }

VARIABLES
    sockState,      \* per transport: unused, connecting, open, closed
    clientWs,       \* the client's transport, 0 if none
    connectStatus,  \* per connect() call: unused, pending, fulfilled, rejected
    timers,         \* tool responses waiting for their setTimeout
    toolCalls,      \* "toolcall" events so far
    \* history (read by the properties only)
    connectOverlap, \* per connect() call: an earlier one was in flight
    disconnectDuring, \* per connect() call: disconnect() ran while in flight
    responses,      \* tool responses transmitted
    dropped,        \* tool calls whose response was not transmitted
    \* the client's handshake and media sends
    acked,          \* per transport: the setup acknowledgement was received
    captures,       \* video frames being encoded (toBlob, FileReader)
    \* history (read by the properties only)
    setupFrames,    \* per transport: setup frames sent
    setupCompleteEvents, \* per transport: "setupcomplete" events emitted
    protoErrors,    \* per transport: "error" events for protocol violations
    badEarly,       \* per transport: a frame other than the acknowledgement
                    \* arrived before the acknowledgement
    ackFrames,      \* per transport: acknowledgement frames received
    inboundCount,   \* handshake-relevant frames received so far
    mediaCalls      \* sendRealtimeInput calls made

protoVars == << acked, captures, setupFrames, setupCompleteEvents,
                protoErrors, badEarly, ackFrames, inboundCount, mediaCalls >>

sessVars == << sockState, clientWs, connectStatus, timers, toolCalls,
               connectOverlap, disconnectDuring, responses, dropped,
               protoVars >>

SessInit ==
    /\ sockState = [k \in Connects |-> "unused"]
    /\ clientWs = 0
    /\ connectStatus = [k \in Connects |-> "unused"]
    /\ timers = {}
    /\ toolCalls = 0
    /\ connectOverlap = [k \in Connects |-> FALSE]
    /\ disconnectDuring = [k \in Connects |-> FALSE]
    /\ responses = {}
    /\ dropped = {}
    /\ acked = [k \in Connects |-> FALSE]
    /\ captures = 0
    /\ setupFrames = [k \in Connects |-> 0]
    /\ setupCompleteEvents = [k \in Connects |-> 0]
    /\ protoErrors = [k \in Connects |-> 0]
    /\ badEarly = [k \in Connects |-> FALSE]
    /\ ackFrames = [k \in Connects |-> 0]
    /\ inboundCount = 0
    /\ mediaCalls = {}

\* ------------------------------- App and InterviewTrackingService
\* src/unnamed/part_002, src/src/services/InterviewTrackingService.ts,
\* src/src/hooks/use-live-api.ts (sessionInitialized effect)
MaxInterviews == 2   \* topic selections within one page lifetime
MaxMessages == 2     \* text messages exchanged within one page lifetime

Topics == {"frontend", "backend"}

Roles == {"user", "ai"}

NoTopic == "null"

NoSession == [topic |-> NoTopic, interview |-> 0, messages |-> << >>]

VARIABLES
    appState,       \* App: selection, interview, feedback
    selectedTopic,  \* App: the topic, NoTopic for null
    sessionInitialized, \* useLiveAPI: sessionInitialized.current
    currentSession, \* InterviewTrackingService.currentSession
    sessionHistory, \* InterviewTrackingService.sessionHistory
    \* history (read by the properties only)
    interviews,     \* topic selections so far
    said,           \* the text messages of the interview under way
    messagesSaid    \* text messages so far

trackVars == << appState, selectedTopic, sessionInitialized, currentSession,
                sessionHistory, interviews, said, messagesSaid >>

TrackInit ==
    /\ appState = "selection"
    /\ selectedTopic = NoTopic
    /\ sessionInitialized = FALSE
    /\ currentSession = NoSession
    /\ sessionHistory = << >>
    /\ interviews = 0
    /\ said = << >>
    /\ messagesSaid = 0

\* -------------------------------------------- audio playback pipeline
\* src/src/hooks/use-live-api.ts (audioStreamerRef, onAudio,
\* stopAudioStreamer); the pipeline (lib/audio-streamer) after section 4.3
\* of the specification.
MaxTime == 4         \* ticks of the audio clock
MaxBuffers == 3      \* inbound PCM buffers

\* Durations of a buffer, in ticks.
Durations == {1, 2}

VARIABLES
    streamer,       \* audioStreamerRef.current is set
    now,            \* the audio clock
    cursor,         \* the pipeline's next start time
    queue,          \* the Playback Buffer Queue: scheduled, not finished
    \* history (read by the properties only)
    schedule,       \* every buffer scheduled, in arrival order
    interrupts,     \* "interrupted" events so far
    justInterrupted, \* the last step processed an "interrupted" event
    buffers         \* "audio" events so far

playVars == << streamer, now, cursor, queue, schedule, interrupts,
               justInterrupted, buffers >>

PlayInit ==
    /\ streamer = FALSE
    /\ now = 0
    /\ cursor = 0
    /\ queue = << >>
    /\ schedule = << >>
    /\ interrupts = 0
    /\ justInterrupted = FALSE
    /\ buffers = 0

\* ------------------------------------- the relay with several connections
\* src/server/index.js: every 'connection' event runs the callback anew, with
\* its own `ws`, `geminiWs` and `setupReceived`.
MaxPoolFrames == 3     \* frames the clients send, all connections together
MaxPoolUpstream == 1   \* frames the upstreams send, all connections together

\* The client connections served at the same time.
Conns == {1, 2}

\* What the clients send: a setup frame, a frame without `setup`, and bytes
\* that are no JSON text.
PoolFrames == {"setupA", "realtime", "binary"}

\* What the upstreams send.
PoolUpstreamFrames == {"serverContent"}

VARIABLES
    connWs,         \* per connection: ws.readyState
    connGemini,     \* per connection: "null", or geminiWs.readyState
    connSetup,      \* per connection: setupReceived
    connMessage,    \* per connection: the frame its 'open' handler closes over
    connQueue,      \* per connection: client frames in flight to the relay
    connEnded,      \* per connection: the client has closed its end
    upQueue,        \* per upstream connection: frames in flight to the relay
    upErrored,      \* per upstream connection: it has emitted 'error'
    poolSent,       \* frames the clients have sent
    poolUpSent,     \* frames the upstreams have sent
    sentUpstream,   \* per upstream connection: frames the relay sent on it
    sentClient,     \* per client connection: frames the relay sent on it
    exited          \* an uncaught exception ended the process

poolVars == << connWs, connGemini, connSetup, connMessage, connQueue,
               connEnded, upQueue, upErrored, poolSent, poolUpSent,
               sentUpstream, sentClient, exited >>

NoFrame == [conn |-> 0, kind |-> "none"]

PoolInit ==
    /\ connWs = [i \in Conns |-> "OPEN"]
    /\ connGemini = [i \in Conns |-> "null"]
    /\ connSetup = [i \in Conns |-> FALSE]
    /\ connMessage = [i \in Conns |-> NoFrame]
    /\ connQueue = [i \in Conns |-> << >>]
    /\ connEnded = [i \in Conns |-> FALSE]
    /\ upQueue = [i \in Conns |-> << >>]
    /\ upErrored = [i \in Conns |-> FALSE]
    /\ poolSent = 0
    /\ poolUpSent = 0
    /\ sentUpstream = [i \in Conns |-> << >>]
    /\ sentClient = [i \in Conns |-> << >>]
    /\ exited = FALSE

(***************************************************************************)
(* The config of useLiveAPI and the setup frames built from it. The        *)
(* instruction of a config is "none" (no systemInstruction), "coach" (the  *)
(* generic interviewSystemPrompt of the Altair component) or the title of  *)
(* the topic the instruction names.                                        *)
(***************************************************************************)

MaxSetups == 2   \* connect() calls within one page lifetime

VARIABLES
    config,         \* useLiveAPI: the instruction of the config state
    \* history (read by the properties only)
    setupSent       \* per connect(): the selected topic and the instruction sent

cfgVars == << config, setupSent >>

\* The lazy initializer of the config state: the instruction is there
\* only `if (topic)`.
InitialConfig(topic) == IF topic # NoTopic THEN topic ELSE "none"

\* LiveAPIProvider is mounted with the page, before a topic is selected.
CfgInit ==
    /\ config = InitialConfig(NoTopic)
    /\ setupSent = << >>


(***************************************************************************)
(* The feedback screen (FeedbackScorecard), the mock evaluation of         *)
(* gemini-evaluator and the fallback of InterviewTrackingService.          *)
(***************************************************************************)

MaxFbMessages == 4   \* messages of the last session

MinimumInterviewDuration == 60
MinimumUserMessages == 3
MinimumAverageLength == 10

SessionDurations == {30, 60, 90} \* session.duration, in seconds
ContentLengths == {5, 20}        \* msg.content.length
Variations == {-5, 4}            \* Math.floor(Math.random() * 10) - 5
Categories == 0..4               \* the indices of getCategoriesForTopic

NoFbSession == [duration |-> 0, messages |-> << >>, ended |-> FALSE]
NoFeedback == [overallScore |-> -1, categoryScores |-> << >>]

VARIABLES
    fbSession,      \* getLastSession() when the feedback screen mounts
    fbShown         \* FeedbackScorecard: the feedback state

fbVars == << fbSession, fbShown >>

FbInit ==
    /\ fbSession = NoFbSession
    /\ fbShown = NoFeedback

appVars == << recVars, trayVars, sessVars, trackVars, playVars, poolVars,
              cfgVars, fbVars >>

vars == << relayVars, appVars >>

\* ------------------------------------------------------- pure operators
\* JSON.parse(message.toString()) returns (does not throw a SyntaxError).
Parses(f) == f # "binary"

\* `data.setup` can be read: data is not null (reading it of null throws).
Readable(f) == f # "jsonNull"

\* `data.setup` is truthy.
HasSetup(f) == f \in {"setupA", "setupB"}

\* The try block reaches its catch: JSON.parse or `data.setup` threw.
Throws(f) == ~Parses(f) \/ ~Readable(f)

\* Mutant: the branch is taken by whatever frame comes first.
SetupBranch_AnyFirst(f, received) == ~received

\* Mutant: the branch does not test setupReceived.
SetupBranch_IgnoreFlag(f, received) == HasSetup(f)

\* The condition of the setup branch: data.setup && !setupReceived.
SetupBranch(f, received) == HasSetup(f) /\ ~received

\* Mutant: the frame is forwarded as soon as geminiWs is set.
CanForward_AnyState(g) == g # "null"

\* The condition under which the else branch forwards the frame:
\* geminiWs && geminiWs.readyState === WebSocket.OPEN.
CanForward(g) == g = "OPEN"

\* ws's isValidStatusCode: the codes close() accepts.
IsValidStatusCode(c) ==
    \/ (c >= 1000 /\ c <= 1014 /\ c \notin {1004, 1005, 1006})
    \/ (c >= 3000 /\ c <= 4999)

\* The code and the reason the catch block closes the client with.
CatchClose == [code |-> InvalidFormatCode, reason |-> InvalidFormatReason]

\* Mutant: the first-frame violation is closed like an upstream error.
NotSetupClose_AsError ==
    [code |-> UpstreamErrorCode, reason |-> ProtocolErrorReason]

\* The code and the reason for a first frame that is no setup frame.
NotSetupClose == [code |-> ProtocolErrorCode, reason |-> ProtocolErrorReason]

\* The code and the reason the upstream 'error' handler closes the client with.
ErrorClose == [code |-> UpstreamErrorCode, reason |-> UpstreamErrorReason]

\* What the upstream 'close' handler passes to ws.close for the event (c, r).
PropagatedClose(c, r) == [code |-> c, reason |-> r]

\* Mutant: the frame is rebuilt as a content frame before it is sent.
Forwarded_Rewritten(f) == "serverContent"

\* What the upstream 'message' handler passes to ws.send for the frame f.
Forwarded(f) == f

\* Mutant: the frame is sent to the client twice.
SentToClient_Twice(state, sent, f) ==
    IF state = "OPEN" THEN sent \o << Forwarded(f), Forwarded(f) >> ELSE sent

\* The frames sent on ws after ws.send(geminiMessage) with ws in `state`:
\* a socket that is no longer OPEN transmits nothing.
SentToClient(state, sent, f) ==
    IF state = "OPEN" THEN Append(sent, Forwarded(f)) ELSE sent

\* Mutant: the handler closes geminiWs only when it is OPEN.
AfterClientClose_OnlyOpen(g) ==
    IF g = "OPEN" THEN "CLOSING" ELSE g

\* geminiWs.readyState after the client 'close' handler: close() is called
\* when geminiWs is set; it leaves a CLOSED socket alone.
AfterClientClose(g) ==
    IF g \in {"CONNECTING", "OPEN"} THEN "CLOSING" ELSE g

RelayIdle ==
    /\ wsState = "OPEN"
    /\ wsClose = NoClose
    /\ geminiWs = "null"
    /\ setupReceived = FALSE
    /\ message = "none"
    /\ clientQueue = << >>
    /\ clientSent = 0
    /\ clientEnded = FALSE
    /\ upstreamQueue = << >>
    /\ upstreamSent = 0
    /\ toUpstream = << >>
    /\ toClient = << >>
    /\ geminiErrored = FALSE
    /\ crashed = FALSE
    /\ handled = << >>
    /\ dueForward = << >>
    /\ fromUpstream = << >>
    /\ upstreamOpens = 0
    /\ openReported = FALSE
    /\ upstreamEvent = NoEvent
    /\ closeCause = NoCause

Init ==
    /\ RelayIdle
    /\ RecIdle
    /\ TrayInit
    /\ SessInit
    /\ TrackInit
    /\ PlayInit
    /\ PoolInit
    /\ CfgInit
    /\ FbInit

\* ------------------------------------------------------------ ws.close
\* ws.close(c.code, c.reason) throws: the socket is OPEN (so close() goes on
\* to build the close frame) and the code may not be sent.
CloseThrows(state, c) == state = "OPEN" /\ ~IsValidStatusCode(c.code)

\* ws.close(c.code, c.reason) with a code that may be sent, called by the
\* handler `by` while it processes `f`: an OPEN socket sends the close frame
\* and becomes CLOSING; a CLOSING or CLOSED socket is left as it is.
CloseWs(c, by, f) ==
    IF wsState = "OPEN"
    THEN /\ wsState' = "CLOSING"
         /\ wsClose' = c
         /\ closeCause' = [by |-> by, frame |-> f, upstream |-> geminiWs]
    ELSE UNCHANGED << wsState, wsClose, closeCause >>

\* ---------------------------------------------------------- environment
\* The client sends the frame f.
ClientSend(f) ==
    /\ ~crashed
    /\ ~clientEnded
    /\ wsState # "CLOSED"
    /\ clientSent < MaxClientFrames
    /\ clientSent' = clientSent + 1
    /\ clientQueue' = Append(clientQueue, f)
    /\ UNCHANGED << wsState, wsClose, geminiWs, setupReceived, message,
                    clientEnded, upstreamQueue, upstreamSent, toUpstream,
                    toClient, geminiErrored, crashed, handled, dueForward,
                    fromUpstream, upstreamOpens, openReported, upstreamEvent,
                    closeCause >>
    /\ UNCHANGED appVars

\* The client closes its end: the frames it sent before still arrive.
ClientClose ==
    /\ ~crashed
    /\ ~clientEnded
    /\ wsState # "CLOSED"
    /\ clientEnded' = TRUE
    /\ UNCHANGED << wsState, wsClose, geminiWs, setupReceived, message,
                    clientQueue, clientSent, upstreamQueue, upstreamSent,
                    toUpstream, toClient, geminiErrored, crashed, handled,
                    dueForward, fromUpstream, upstreamOpens, openReported,
                    upstreamEvent, closeCause >>
    /\ UNCHANGED appVars

\* Upstream sends the frame f on its open connection.
UpstreamSend(f) ==
    /\ ~crashed
    /\ openReported
    /\ geminiWs \in {"OPEN", "CLOSING"}
    /\ ~geminiErrored
    /\ upstreamSent < MaxUpstreamFrames
    /\ upstreamSent' = upstreamSent + 1
    /\ upstreamQueue' = Append(upstreamQueue, f)
    /\ UNCHANGED << wsState, wsClose, geminiWs, setupReceived, message,
                    clientQueue, clientSent, clientEnded, toUpstream,
                    toClient, geminiErrored, crashed, handled, dueForward,
                    fromUpstream, upstreamOpens, openReported, upstreamEvent,
                    closeCause >>
    /\ UNCHANGED appVars

\* ------------------------------------------------------------- handlers
\* ws.on('message'): the client frame at the head of the queue.
WsMessage ==
    /\ ~crashed
    /\ wsState # "CLOSED"
    /\ clientQueue # << >>
    /\ LET f == Head(clientQueue) IN
       /\ clientQueue' = Tail(clientQueue)
       /\ handled' = Append(handled, f)
       /\ dueForward' = IF geminiWs = "OPEN" THEN Append(dueForward, f)
                                             ELSE dueForward
       /\ IF Throws(f)
          THEN \* catch (error): ws.close(1007, 'Invalid message format')
               /\ CloseWs(CatchClose, "message", f)
               /\ UNCHANGED << geminiWs, setupReceived, message, toUpstream,
                               upstreamOpens >>
          ELSE IF SetupBranch(f, setupReceived)
          THEN \* setupReceived = true; geminiWs = new WebSocket(geminiUrl)
               /\ setupReceived' = TRUE
               /\ geminiWs' = "CONNECTING"
               /\ message' = f
               /\ upstreamOpens' = upstreamOpens + 1
               /\ UNCHANGED << wsState, wsClose, closeCause, toUpstream >>
          ELSE IF CanForward(geminiWs)
          THEN \* geminiWs.send(message)
               /\ toUpstream' = Append(toUpstream, f)
               /\ UNCHANGED << wsState, wsClose, closeCause, geminiWs,
                               setupReceived, message, upstreamOpens >>
          ELSE IF ~setupReceived
          THEN \* ws.close(1003, 'Protocol error: ...')
               /\ CloseWs(NotSetupClose, "message", f)
               /\ UNCHANGED << geminiWs, setupReceived, message, toUpstream,
                               upstreamOpens >>
          ELSE \* 'Waiting for Gemini connection to be ready...': dropped
               UNCHANGED << wsState, wsClose, closeCause, geminiWs,
                            setupReceived, message, toUpstream,
                            upstreamOpens >>
    /\ UNCHANGED << clientSent, clientEnded, upstreamQueue, upstreamSent,
                    toClient, geminiErrored, crashed, fromUpstream,
                    openReported, upstreamEvent >>
    /\ UNCHANGED appVars

\* ws.on('close'): the client connection has closed, after the frames in
\* flight were delivered; the handler closes geminiWs when it is set.
WsClose ==
    /\ ~crashed
    /\ wsState # "CLOSED"
    /\ clientEnded \/ wsState = "CLOSING"
    /\ clientQueue = << >>
    /\ wsState' = "CLOSED"
    /\ geminiWs' = AfterClientClose(geminiWs)
    /\ UNCHANGED << wsClose, setupReceived, message, clientQueue, clientSent,
                    clientEnded, upstreamQueue, upstreamSent, toUpstream,
                    toClient, geminiErrored, crashed, handled, dueForward,
                    fromUpstream, upstreamOpens, openReported, upstreamEvent,
                    closeCause >>
    /\ UNCHANGED appVars

\* geminiWs.on('open'): readyState becomes OPEN and the handler sends the
\* setup frame it closed over.
GeminiOpen ==
    /\ ~crashed
    /\ geminiWs = "CONNECTING"
    /\ geminiWs' = "OPEN"
    /\ openReported' = TRUE
    /\ toUpstream' = Append(toUpstream, message)
    /\ UNCHANGED << wsState, wsClose, setupReceived, message, clientQueue,
                    clientSent, clientEnded, upstreamQueue, upstreamSent,
                    toClient, geminiErrored, crashed, handled, dueForward,
                    fromUpstream, upstreamOpens, upstreamEvent, closeCause >>
    /\ UNCHANGED appVars

\* geminiWs.on('message'): ws.send(geminiMessage).
GeminiMessage ==
    /\ ~crashed
    /\ geminiWs \in {"OPEN", "CLOSING"}
    /\ ~geminiErrored
    /\ upstreamQueue # << >>
    /\ LET f == Head(upstreamQueue) IN
       /\ upstreamQueue' = Tail(upstreamQueue)
       /\ fromUpstream' = Append(fromUpstream, f)
       /\ toClient' = SentToClient(wsState, toClient, f)
    /\ UNCHANGED << wsState, wsClose, geminiWs, setupReceived, message,
                    clientQueue, clientSent, clientEnded, upstreamSent,
                    toUpstream, geminiErrored, crashed, handled, dueForward,
                    upstreamOpens, openReported, upstreamEvent, closeCause >>
    /\ UNCHANGED appVars

\* geminiWs.on('error'): the handshake or the connection failed; the socket
\* is destroyed with what it had in flight, and a 'close' event follows.
GeminiError ==
    /\ ~crashed
    /\ geminiWs \in {"CONNECTING", "OPEN", "CLOSING"}
    /\ ~geminiErrored
    /\ geminiErrored' = TRUE
    /\ geminiWs' = "CLOSING"
    /\ upstreamQueue' = << >>
    /\ upstreamEvent' = [type |-> "error", code |-> 0, reason |-> "none",
                         wsOpen |-> wsState = "OPEN"]
    /\ CloseWs(ErrorClose, "error", "none")
    /\ UNCHANGED << setupReceived, message, clientQueue, clientSent,
                    clientEnded, upstreamSent, toUpstream, toClient, crashed,
                    handled, dueForward, fromUpstream, upstreamOpens,
                    openReported >>
    /\ UNCHANGED appVars

\* geminiWs.on('close', (code, reason)): ws.close(code, reason), after the
\* frames upstream sent before were delivered. A code that may not be sent
\* makes ws.close throw out of the handler, which ends the process and with
\* it both connections.
GeminiClose(e) ==
    /\ ~crashed
    /\ geminiWs \in {"OPEN", "CLOSING"}
    /\ upstreamQueue = << >>
    /\ upstreamEvent' = [type |-> "close", code |-> e.code, reason |-> e.reason,
                         wsOpen |-> wsState = "OPEN"]
    /\ geminiWs' = "CLOSED"
    /\ IF CloseThrows(wsState, PropagatedClose(e.code, e.reason))
       THEN /\ crashed' = TRUE
            /\ wsState' = "CLOSED"
            /\ clientQueue' = << >>
            /\ UNCHANGED << wsClose, closeCause >>
       ELSE /\ CloseWs(PropagatedClose(e.code, e.reason), "close", "none")
            /\ UNCHANGED << crashed, clientQueue >>
    /\ UNCHANGED << setupReceived, message, clientSent, clientEnded,
                    upstreamQueue, upstreamSent, toUpstream, toClient,
                    geminiErrored, handled, dueForward, fromUpstream,
                    upstreamOpens, openReported >>
    /\ UNCHANGED appVars

Next ==
    \/ \E f \in ClientFrames : ClientSend(f)
    \/ ClientClose
    \/ \E f \in UpstreamFrames : UpstreamSend(f)
    \/ WsMessage
    \/ WsClose
    \/ GeminiOpen
    \/ GeminiMessage
    \/ GeminiError
    \/ \E e \in UpstreamCloses : GeminiClose(e)

Spec == Init /\ [][Next]_vars

\* The handlers run whenever their events are pending: the event loop
\* delivers every frame that has arrived.
FairSpec == Spec /\ WF_vars(WsMessage) /\ WF_vars(GeminiMessage)

TypeOK ==
    /\ wsState \in {"OPEN", "CLOSING", "CLOSED"}
    /\ geminiWs \in {"null", "CONNECTING", "OPEN", "CLOSING", "CLOSED"}
    /\ setupReceived \in BOOLEAN
    /\ message \in ClientFrames \cup {"none"}
    /\ clientSent \in 0..MaxClientFrames
    /\ upstreamSent \in 0..MaxUpstreamFrames
    /\ Len(clientQueue) <= MaxClientFrames
    /\ Len(upstreamQueue) <= MaxUpstreamFrames


(***************************************************************************)
(* AudioRecorder (src/src/lib/audio-recorder.ts). The promise `starting`   *)
(* runs its executor up to the first await inside start(); each later      *)
(* await is one step. When `starting` settles, its reactions (the awaits   *)
(* of the start() calls and the handleStop reactions attached by stop())   *)
(* run as microtasks before any other event, so settling is one step.      *)
(***************************************************************************)

\* Mutant: start() does not look at `starting`.
JoinsInFlight_Never(step) == FALSE

\* start(): `if (this.starting)` awaits the promise in flight.
JoinsInFlight(step) == step # "none"

\* Mutant: start() knows no attempt limit.
Refused_Never(attempts) == FALSE

\* start(): the attempt limit.
Refused(attempts) == attempts >= maxInitializationAttempts

\* Mutant: stop() runs handleStop at once, whatever is in flight.
StopDeferred_Never(step) == FALSE

\* Mutant: start() does not look at `recording`.
AlreadyRecording_Never(rec) == FALSE

\* start(): `if (this.recording)` returns at once.
AlreadyRecording(rec) == rec

\* Mutant: handleStop keeps what the recorder holds.
ClearedByStop_Kept(held) == held

\* handleStop: the field is undefined (recording: false) afterwards.
ClearedByStop(held) == FALSE

\* Mutant: handleStop leaves the tracks of the stream running.
TracksAfterStop_Leak(held, live) == live

\* handleStop: the tracks of the stream held are stopped.
TracksAfterStop(held, live) == IF held THEN live - 1 ELSE live

\* stop(): `if (this.starting)` defers handleStop until the promise settles.
StopDeferred(step) == step # "none"

\* Mutant: nothing is emitted.
EmitError_Silent(n) == n

\* this.emit("error", ...), counted.
EmitError(n) == n + 1

\* The await after `step` in the promise `starting`; a running audio context
\* needs no resume.
NextInitStep(step, suspended) ==
    CASE step = "getUserMedia" -> "audioContext"
      [] step = "audioContext" -> "addModule1"
      [] step = "addModule1" -> "addModule2"
      [] step = "addModule2" -> IF suspended THEN "resume" ELSE "none"
      [] OTHER -> "none"

\* The earliest start() call that has not settled, 0 if none.
EarliestPending ==
    IF \E c \in Calls : callStatus[c] = "pending"
    THEN CHOOSE c \in Calls : /\ callStatus[c] = "pending"
                              /\ \A d \in Calls : callStatus[d] = "pending" => c <= d
    ELSE 0

\* The start() call made next.
NextCall(c) ==
    /\ callStatus[c] = "unused"
    /\ \A d \in Calls : d < c => callStatus[d] # "unused"

\* handleStop of stop().
HandleStop ==
    /\ source' = ClearedByStop(source)
    /\ feeding' = ClearedByStop(feeding)
    /\ stream' = ClearedByStop(stream)
    /\ liveTracks' = TracksAfterStop(stream, liveTracks)
    /\ recordingWorklet' = ClearedByStop(recordingWorklet)
    /\ vuWorklet' = ClearedByStop(vuWorklet)
    /\ recording' = ClearedByStop(recording)

\* The recorder is recording and holds a stream with a live track.
IsRecording(rec, str, tracks) == rec /\ str /\ tracks > 0

\* What a start() call leaves in the histories, whichever branch it takes.
NoteCall(c, kind) ==
    /\ callKind' = [callKind EXCEPT ![c] = kind]
    /\ callJoined' = [callJoined EXCEPT ![c] = EarliestPending]
    /\ callStopped' = [callStopped EXCEPT ![c] = stopsSinceStart > 0]
    /\ stopsSinceStart' = 0

\* recorder.start()
RecStart(c) ==
    /\ NextCall(c)
    /\ IF JoinsInFlight(initStep)
       THEN /\ callStatus' = [callStatus EXCEPT ![c] = "pending"]
            /\ NoteCall(c, "waiter")
            /\ UNCHANGED << initStep, initializationAttempts, errorEvents,
                            failures, callFail, getUserMediaCalls,
                            stopInFlight >>
       ELSE IF AlreadyRecording(recording)
       THEN /\ callStatus' = [callStatus EXCEPT ![c] = "fulfilled"]
            /\ NoteCall(c, "noop")
            /\ UNCHANGED << initStep, initializationAttempts, errorEvents,
                            failures, callFail, getUserMediaCalls,
                            stopInFlight >>
       ELSE IF Refused(initializationAttempts)
       THEN /\ errorEvents' = EmitError(errorEvents)
            /\ callStatus' = [callStatus EXCEPT ![c] = "fulfilled"]
            /\ NoteCall(c, "refused")
            /\ UNCHANGED << initStep, initializationAttempts, failures,
                            callFail, getUserMediaCalls, stopInFlight >>
       ELSE /\ initializationAttempts' = initializationAttempts + 1
            /\ IF ~mediaApi
               THEN /\ errorEvents' = EmitError(errorEvents)
                    /\ failures' = failures + 1
                    /\ callFail' = [callFail EXCEPT ![c] = TRUE]
                    /\ callStatus' = [callStatus EXCEPT ![c] = "rejected"]
                    /\ NoteCall(c, "noapi")
                    /\ UNCHANGED << initStep, getUserMediaCalls,
                                    stopInFlight >>
               ELSE /\ initStep' = "getUserMedia"
                    /\ getUserMediaCalls' = getUserMediaCalls + 1
                    /\ stopInFlight' = FALSE
                    /\ callStatus' = [callStatus EXCEPT ![c] = "pending"]
                    /\ NoteCall(c, "first")
                    /\ UNCHANGED << errorEvents, failures, callFail >>
    /\ UNCHANGED << mediaApi, deferredStops, stream, source, recordingWorklet,
                    vuWorklet, recording, feeding, liveTracks, portQueue,
                    stopCalls, chunksPosted, dataEvents >>
    /\ callRecording' = [callRecording EXCEPT ![c] = recording]
    /\ callQuiet' = [callQuiet EXCEPT
                       ![c] = /\ Fields' = Fields
                              /\ getUserMediaCalls' = getUserMediaCalls
                              /\ errorEvents' = errorEvents]
    /\ idleStops' = 0
    /\ UNCHANGED afterFirstStop
    /\ callAtLimit' = [callAtLimit EXCEPT
                         ![c] = /\ initStep = "none"
                                /\ ~recording
                                /\ initializationAttempts >=
                                       maxInitializationAttempts]
    /\ callUntouched' = [callUntouched EXCEPT
                           ![c] = /\ Fields' = Fields
                                  /\ getUserMediaCalls' = getUserMediaCalls]
    /\ callErrors' = [callErrors EXCEPT ![c] = errorEvents' - errorEvents]
    /\ callRecAtFulfil' = [callRecAtFulfil EXCEPT
                             ![c] = /\ callStatus'[c] = "fulfilled"
                                    /\ IsRecording(recording', stream',
                                                   liveTracks')]
    /\ UNCHANGED callStopAfter

\* `starting` settles: the start() calls awaiting it settle with it, the first
\* caller stops the recorder on failure, the deferred handleStop reactions run.
Settle(ok) ==
    /\ initStep' = "none"
    /\ callStatus' = [c \in Calls |->
                        IF callStatus[c] = "pending"
                        THEN (IF ok THEN "fulfilled" ELSE "rejected")
                        ELSE callStatus[c]]
    /\ callFail' = [c \in Calls |->
                        IF callStatus[c] = "pending" THEN ~ok ELSE callFail[c]]
    /\ deferredStops' = 0

\* One await of `starting` completes.
RecInitStep(suspended) ==
    /\ initStep # "none"
    /\ LET next == NextInitStep(initStep, suspended)
           doStop == next = "none" /\ deferredStops > 0
       IN  /\ IF next = "none"
              THEN Settle(TRUE)
              ELSE /\ initStep' = next
                   /\ UNCHANGED << callStatus, callFail, deferredStops >>
           /\ IF doStop
              THEN HandleStop
              ELSE /\ stream' = (stream \/ initStep = "getUserMedia")
                   /\ liveTracks' = IF initStep = "getUserMedia"
                                    THEN liveTracks + 1 ELSE liveTracks
                   /\ source' = (source \/ initStep = "audioContext")
                   /\ recordingWorklet' =
                          (recordingWorklet \/ initStep = "addModule1")
                   /\ feeding' = (feeding \/ initStep = "addModule1")
                   /\ vuWorklet' = (vuWorklet \/ initStep = "addModule2")
                   /\ recording' = (recording \/ initStep = "addModule2")
    /\ UNCHANGED << mediaApi, initializationAttempts, portQueue, callKind,
                    callJoined, callStopped, stopInFlight, getUserMediaCalls,
                    errorEvents,
                    failures, stopCalls, stopsSinceStart, chunksPosted,
                    dataEvents >>
    /\ UNCHANGED << callRecording, callQuiet, idleStops, afterFirstStop >>
    /\ callRecAtFulfil' =
          [c \in Calls |->
              IF callStatus[c] = "pending" /\ callStatus'[c] = "fulfilled"
              THEN IsRecording(recording', stream', liveTracks')
              ELSE callRecAtFulfil[c]]
    /\ UNCHANGED << callAtLimit, callUntouched, callErrors, callStopAfter >>

\* One await of `starting` throws: the catch emits "error" and rejects.
RecInitFail ==
    /\ initStep # "none"
    /\ errorEvents' = EmitError(errorEvents)
    /\ failures' = failures + 1
    /\ Settle(FALSE)
    /\ HandleStop
    /\ UNCHANGED << mediaApi, initializationAttempts, portQueue, callKind,
                    callJoined, callStopped, stopInFlight, getUserMediaCalls,
                    stopCalls,
                    stopsSinceStart, chunksPosted, dataEvents >>
    /\ UNCHANGED << callRecording, callQuiet, idleStops, afterFirstStop >>
    /\ UNCHANGED << callAtLimit, callUntouched, callErrors, callStopAfter,
                    callRecAtFulfil >>

\* recorder.stop()
StopBody ==
    /\ stopCalls' = stopCalls + 1
    /\ stopsSinceStart' = stopsSinceStart + 1
    /\ stopInFlight' = (stopInFlight \/ EarliestPending # 0)
    /\ IF StopDeferred(initStep)
       THEN /\ deferredStops' = deferredStops + 1
            /\ UNCHANGED << source, feeding, stream, liveTracks,
                            recordingWorklet, vuWorklet, recording >>
       ELSE /\ HandleStop
            /\ UNCHANGED deferredStops
    /\ UNCHANGED << mediaApi, initStep, initializationAttempts, portQueue,
                    callStatus, callKind, callJoined, callFail, callStopped,
                    getUserMediaCalls, errorEvents, failures, chunksPosted,
                    dataEvents >>
    /\ idleStops' = IF initStep = "none" THEN idleStops + 1 ELSE idleStops
    /\ afterFirstStop' = IF initStep = "none" /\ idleStops = 0
                         THEN Fields' ELSE afterFirstStop
    /\ UNCHANGED << callRecording, callQuiet >>
    /\ callStopAfter' = [c \in Calls |->
                            callStopAfter[c] \/ callStatus[c] = "pending"]
    /\ UNCHANGED << callAtLimit, callUntouched, callErrors, callRecAtFulfil >>

\* A stop() call of the recorder's user.
RecStop ==
    /\ stopCalls < MaxStopCalls
    /\ StopBody

\* The recording worklet posts a chunk of the audio the source feeds it.
WorkletPost ==
    /\ feeding
    /\ chunksPosted < MaxChunks
    /\ chunksPosted' = chunksPosted + 1
    /\ portQueue' = portQueue + 1
    /\ UNCHANGED << mediaApi, initStep, deferredStops, stream, source,
                    recordingWorklet, vuWorklet, recording,
                    initializationAttempts, feeding, liveTracks, callStatus,
                    callKind, callJoined, callFail, callStopped,
                    stopInFlight, getUserMediaCalls, errorEvents, failures,
                    stopCalls, stopsSinceStart, dataEvents >>
    /\ UNCHANGED << callRecording, callQuiet, idleStops, afterFirstStop >>
    /\ UNCHANGED << callAtLimit, callUntouched, callErrors, callStopAfter,
                    callRecAtFulfil >>

\* recordingWorklet.port.onmessage: emit "data".
PortMessage ==
    /\ portQueue > 0
    /\ portQueue' = portQueue - 1
    /\ dataEvents' = dataEvents + 1
    /\ UNCHANGED << mediaApi, initStep, deferredStops, stream, source,
                    recordingWorklet, vuWorklet, recording,
                    initializationAttempts, feeding, liveTracks, callStatus,
                    callKind, callJoined, callFail, callStopped,
                    stopInFlight, getUserMediaCalls, errorEvents, failures,
                    stopCalls, stopsSinceStart, chunksPosted >>
    /\ UNCHANGED << callRecording, callQuiet, idleStops, afterFirstStop >>
    /\ UNCHANGED << callAtLimit, callUntouched, callErrors, callStopAfter,
                    callRecAtFulfil >>

RecorderInit ==
    /\ RelayIdle
    /\ RecInit
    /\ TrayInit
    /\ SessInit
    /\ TrackInit
    /\ PlayInit
    /\ PoolInit
    /\ CfgInit
    /\ FbInit

\* What the recorder's own steps leave alone.
notRecVars == << relayVars, trayVars, sessVars, trackVars, playVars,
        poolVars, cfgVars, fbVars >>

RecorderNext ==
    \/ \E c \in Calls : RecStart(c) /\ UNCHANGED notRecVars
    \/ \E suspended \in BOOLEAN : RecInitStep(suspended) /\ UNCHANGED notRecVars
    \/ RecInitFail /\ UNCHANGED notRecVars
    \/ RecStop /\ UNCHANGED notRecVars
    \/ WorkletPost /\ UNCHANGED notRecVars
    \/ PortMessage /\ UNCHANGED notRecVars

RecorderSpec == RecorderInit /\ [][RecorderNext]_vars

RecTypeOK ==
    /\ initStep \in {"none"} \cup {InitSteps[i] : i \in 1..Len(InitSteps)}
    /\ initializationAttempts \in 0..maxInitializationAttempts
    /\ liveTracks \in 0..MaxStartCalls
    /\ deferredStops \in 0..MaxStopCalls
    /\ portQueue \in 0..MaxChunks
    /\ callStatus \in [Calls -> {"unused", "pending", "fulfilled", "rejected"}]


(***************************************************************************)
(* ControlTray (src/src/components/control-tray/ControlTray.tsx): the      *)
(* audio recording effect. A change of `connected` or `muted` re-renders:  *)
(* the cleanup of the latest run, then a new run with the new values in    *)
(* its closure; nothing else happens in between. The continuation of       *)
(* `await audioRecorder...start()` runs in the microtasks of the           *)
(* settlement, so it is part of the step that settles the call.            *)
(***************************************************************************)

\* The effect's dependencies differ from the values of its latest run.
Dirty == connected # effConnected[curEffect] \/ muted # effMuted[curEffect]

Quiet == ~Dirty /\ ~cleaned

\* setupAudioRecorder: the branch that registers the listeners and starts.
StartsRecorder(c, m, mic, active) == c /\ ~m /\ mic /\ ~active

\* The effect's cleanup: `if (isActive)`.
CleanupStops(active) == active

\* onData: `if (connected && !muted && isActive)`.
OnDataSends(c, m, active) == c /\ ~m /\ active

\* The continuations of the start() calls that settle in this step
\* (isActive = true), and onAudioError for the "error" events emitted in it.
\* Mutant: the "error" listener leaves `muted` as it is.
OnAudioError_Ignored(m, emitted) == m

\* onAudioError: setMuted(true) for every "error" event of the recorder.
OnAudioError(m, emitted) == m \/ emitted

\* setupAudioRecorder, catch: setMuted(true) when the awaited start() rejects.
StartRejected(m, rejected) == m \/ rejected

TrayAfterRecorder ==
    /\ isActive' = [e \in Effects |->
                      \/ isActive[e]
                      \/ /\ effCall[e] # 0
                         /\ callStatus[effCall[e]] = "pending"
                         /\ callStatus'[effCall[e]] = "fulfilled"]
    /\ muted' = StartRejected(
                    OnAudioError(muted, errorEvents' > errorEvents),
                    \E e \in Effects :
                        /\ effCall[e] # 0
                        /\ callStatus[effCall[e]] = "pending"
                        /\ callStatus'[effCall[e]] = "rejected")
    /\ UNCHANGED << connected, micInitialized, micStarting, curEffect, cleaned,
                    effConnected, effMuted, listening, effCall, sendsPerChunk, offSends >>

\* useLiveAPI reports a connection or its end.
TrayConnected ==
    /\ Quiet
    /\ curEffect < MaxEffects
    /\ connected' = ~connected
    /\ UNCHANGED << muted, micInitialized, micStarting, curEffect, cleaned,
                    effConnected, effMuted, isActive, listening, effCall,
                    sendsPerChunk, offSends >>
    /\ UNCHANGED recVars

\* handleMicToggle
MicToggle ==
    /\ Quiet
    /\ curEffect < MaxEffects
    /\ micStarting = "no"
    /\ IF muted /\ ~micInitialized
       THEN micStarting' = "toggle" /\ UNCHANGED muted
       ELSE muted' = ~muted /\ UNCHANGED micStarting
    /\ UNCHANGED << connected, micInitialized, curEffect, cleaned,
                    effConnected, effMuted, isActive, listening, effCall,
                    sendsPerChunk, offSends >>
    /\ UNCHANGED recVars

\* The permission request of initializeMicrophone or handleMicToggle settles.
MicPermission(granted) ==
    /\ Quiet
    /\ micStarting # "no"
    /\ micStarting' = "no"
    /\ micInitialized' = granted
    /\ muted' = IF granted
                THEN (IF micStarting = "toggle" THEN FALSE ELSE muted)
                ELSE (IF micStarting = "mount" THEN TRUE ELSE muted)
    /\ UNCHANGED << connected, curEffect, cleaned, effConnected, effMuted,
                    isActive, listening, effCall, sendsPerChunk, offSends >>
    /\ UNCHANGED recVars

\* The cleanup of the latest run of the effect.
EffectCleanup ==
    /\ Dirty
    /\ ~cleaned
    /\ cleaned' = TRUE
    /\ IF CleanupStops(isActive[curEffect])
       THEN /\ listening' = [listening EXCEPT ![curEffect] = FALSE]
            /\ isActive' = [isActive EXCEPT ![curEffect] = FALSE]
            /\ StopBody
       ELSE /\ UNCHANGED << listening, isActive >>
            /\ UNCHANGED recVars
    /\ UNCHANGED << connected, muted, micInitialized, micStarting, curEffect,
                    effConnected, effMuted, effCall, sendsPerChunk, offSends >>

\* The next run of the effect: setupAudioRecorder().
EffectRun ==
    /\ cleaned
    /\ curEffect < MaxEffects
    /\ LET e == curEffect + 1 IN
       /\ curEffect' = e
       /\ cleaned' = FALSE
       /\ effConnected' = [effConnected EXCEPT ![e] = connected]
       /\ effMuted' = [effMuted EXCEPT ![e] = muted]
       /\ IF StartsRecorder(connected, muted, micInitialized, isActive[e])
          THEN \E c \in Calls :
                 /\ RecStart(c)
                 /\ listening' = [listening EXCEPT ![e] = TRUE]
                 /\ effCall' = [effCall EXCEPT ![e] = c]
                 /\ isActive' = [isActive EXCEPT
                                   ![e] = callStatus'[c] = "fulfilled"]
                 /\ muted' = StartRejected(
                                 OnAudioError(muted,
                                              errorEvents' > errorEvents),
                                 callStatus'[c] = "rejected")
          ELSE /\ UNCHANGED << listening, effCall, isActive, muted >>
               /\ UNCHANGED recVars
    /\ UNCHANGED << connected, micInitialized, micStarting, sendsPerChunk, offSends >>

\* A "data" event: every onData that is a listener runs.
TrayOnData ==
    /\ sendsPerChunk' =
          Append(sendsPerChunk,
                 Cardinality({e \in Effects :
                                /\ listening[e]
                                /\ OnDataSends(effConnected[e], effMuted[e],
                                               isActive[e])}))
    /\ offSends' =
          IF muted \/ ~connected
          THEN offSends + Cardinality({e \in Effects :
                                         /\ listening[e]
                                         /\ OnDataSends(effConnected[e],
                                                        effMuted[e],
                                                        isActive[e])})
          ELSE offSends
    /\ UNCHANGED << connected, muted, micInitialized, micStarting, curEffect,
                    cleaned, effConnected, effMuted, isActive, listening,
                    effCall >>

TraySpecInit ==
    /\ RelayIdle
    /\ RecIdle
    /\ TrayInit
    /\ SessInit
    /\ TrackInit
    /\ PlayInit
    /\ PoolInit
    /\ CfgInit
    /\ FbInit

\* What the tray and its recorder leave alone.
notTrayVars == << relayVars, sessVars, trackVars, playVars,
        poolVars, cfgVars, fbVars >>

TrayNext ==
    \/ TrayConnected /\ UNCHANGED notTrayVars
    \/ MicToggle /\ UNCHANGED notTrayVars
    \/ \E granted \in BOOLEAN : MicPermission(granted) /\ UNCHANGED notTrayVars
    \/ EffectCleanup /\ UNCHANGED notTrayVars
    \/ EffectRun /\ UNCHANGED notTrayVars
    \/ \E suspended \in BOOLEAN :
          Quiet /\ RecInitStep(suspended) /\ TrayAfterRecorder
                /\ UNCHANGED notTrayVars
    \/ Quiet /\ RecInitFail /\ TrayAfterRecorder /\ UNCHANGED notTrayVars
    \/ Quiet /\ WorkletPost /\ UNCHANGED trayVars /\ UNCHANGED notTrayVars
    \/ Quiet /\ PortMessage /\ TrayOnData /\ UNCHANGED notTrayVars

TraySpec == TraySpecInit /\ [][TrayNext]_vars


(***************************************************************************)
(* useLiveAPI (src/src/hooks/use-live-api.ts) over the protocol client,    *)
(* and Altair's tool-call handler (src/unnamed/part_001). The client's     *)
(* source is not part of these files; it is modelled after section 4.1 of  *)
(* the specification: connect opens a new transport, which is the client's *)
(* transport from then on, and its promise is fulfilled when the transport *)
(* opens and rejected when it closes without having opened; disconnect     *)
(* closes the client's transport in any state and emits "close";           *)
(* sendToolResponse transmits at once on the client's transport if it is   *)
(* open and is dropped otherwise.                                          *)
(***************************************************************************)

Live(k) == sockState[k] \in {"connecting", "open"}

\* The client's states of section 4.1, per transport.
AwaitingSetupAck(k) == sockState[k] = "open" /\ ~acked[k]

Active(k) == sockState[k] = "open" /\ acked[k]

InFlight == {k \in Connects : connectStatus[k] = "pending"}

NextConnect(k) ==
    /\ connectStatus[k] = "unused"
    /\ \A j \in Connects : j < k => connectStatus[j] # "unused"

\* Mutant: connect() of the hook opens a transport without closing the last.
TornDownByConnect_None(ws) == 0

\* connect() of the hook: client.disconnect() before client.connect(config).
TornDownByConnect(ws) == ws

\* Mutant: disconnect() of the hook only clears the flag.
TornDownByDisconnect_None(ws) == 0

\* disconnect() of the hook: client.disconnect().
TornDownByDisconnect(ws) == ws

\* onToolCall: functionResponses carries the id of every function call.
ResponseIds(fcs) == fcs

\* client.disconnect() on transport t (0: none): the transport is closed and
\* no longer the client's; onClose of the hook clears `connected`.
Closed(t) == IF t # 0 THEN [sockState EXCEPT ![t] = "closed"] ELSE sockState

\* connect() of the hook.
HookConnect(k) ==
    /\ NextConnect(k)
    /\ LET t == TornDownByConnect(clientWs) IN
       /\ sockState' = [Closed(t) EXCEPT ![k] = "connecting"]
       /\ connected' = IF t # 0 THEN FALSE ELSE connected
    /\ clientWs' = k
    /\ connectStatus' = [connectStatus EXCEPT ![k] = "pending"]
    /\ connectOverlap' = [connectOverlap EXCEPT ![k] = InFlight # {}]
    /\ UNCHANGED << timers, toolCalls, disconnectDuring, responses, dropped >>
    /\ UNCHANGED protoVars

\* disconnect() of the hook.
HookDisconnect ==
    /\ LET t == TornDownByDisconnect(clientWs) IN
       /\ sockState' = Closed(t)
       /\ clientWs' = IF t # 0 THEN 0 ELSE clientWs
    /\ connected' = FALSE
    /\ disconnectDuring' = [k \in Connects |->
                               disconnectDuring[k] \/ k \in InFlight]
    /\ UNCHANGED << connectStatus, timers, toolCalls, connectOverlap,
                    responses, dropped >>
    /\ UNCHANGED protoVars

\* A connecting transport opens: the client sends the setup frame, its
\* connect() is fulfilled and the hook goes on to setConnected(true).
SocketOpens(k) ==
    /\ sockState[k] = "connecting"
    /\ sockState' = [sockState EXCEPT ![k] = "open"]
    /\ setupFrames' = [setupFrames EXCEPT ![k] = @ + 1]
    /\ connectStatus' = [connectStatus EXCEPT ![k] = "fulfilled"]
    /\ connected' = TRUE
    /\ UNCHANGED << clientWs, timers, toolCalls, connectOverlap,
                    disconnectDuring, responses, dropped >>
    /\ UNCHANGED << acked, captures, setupCompleteEvents, protoErrors,
                    badEarly, ackFrames, inboundCount, mediaCalls >>

\* A transport fails or is closed by the relay: "close", onClose.
SocketCloses(k) ==
    /\ Live(k)
    /\ sockState' = [sockState EXCEPT ![k] = "closed"]
    /\ clientWs' = IF clientWs = k THEN 0 ELSE clientWs
    /\ connected' = FALSE
    /\ UNCHANGED << connectStatus, timers, toolCalls, connectOverlap,
                    disconnectDuring, responses, dropped >>
    /\ UNCHANGED protoVars

\* The connect() whose transport closed before it opened is rejected.
ConnectRejects(k) ==
    /\ connectStatus[k] = "pending"
    /\ sockState[k] = "closed"
    /\ connectStatus' = [connectStatus EXCEPT ![k] = "rejected"]
    /\ UNCHANGED << sockState, clientWs, connected, timers, toolCalls,
                    connectOverlap, disconnectDuring, responses, dropped >>
    /\ UNCHANGED protoVars

\* A "toolcall" event on the client's open transport: onToolCall.
ToolCall(fcs) ==
    /\ clientWs # 0
    /\ sockState[clientWs] = "open"
    /\ toolCalls < MaxToolCalls
    /\ toolCalls' = toolCalls + 1
    /\ timers' = IF fcs # {}
                 THEN timers \cup {[call |-> toolCalls + 1,
                                    session |-> clientWs, fcs |-> fcs]}
                 ELSE timers
    /\ UNCHANGED << sockState, clientWs, connected, connectStatus,
                    connectOverlap, disconnectDuring, responses, dropped >>
    /\ UNCHANGED protoVars

\* The setTimeout callback of onToolCall: client.sendToolResponse(...).
ToolTimer(t) ==
    /\ t \in timers
    /\ timers' = timers \ {t}
    /\ IF clientWs # 0 /\ sockState[clientWs] = "open"
       THEN /\ responses' = responses \cup
                   {[call |-> t.call, session |-> t.session, fcs |-> t.fcs,
                     sentOn |-> clientWs, ids |-> ResponseIds(t.fcs)]}
            /\ UNCHANGED dropped
       ELSE /\ dropped' = dropped \cup {t.call}
            /\ UNCHANGED responses
    /\ UNCHANGED << sockState, clientWs, connected, connectStatus, toolCalls,
                    connectOverlap, disconnectDuring >>
    /\ UNCHANGED protoVars

\* The frames of the upstream that matter to the handshake.
InboundFrames == {"setupComplete", "serverContent"}

\* Mutant: every acknowledgement emits "setupcomplete".
AckApplied_Always(ack) == TRUE

\* The acknowledgement is applied in AwaitingSetupAck only.
AckApplied(ack) == ~ack

\* A frame other than the acknowledgement, received before it.
Violation(f, ack) == f # "setupComplete" /\ ~ack

\* Mutant: sendRealtimeInput transmits on any open transport.
Transmits_WhenOpen(state, ack) == state = "open"

\* sendRealtimeInput: a frame is transmitted only in Active.
Transmits(state, ack) == state = "open" /\ ack

\* The client receives frame f on its open transport.
Inbound(f) ==
    /\ clientWs # 0
    /\ sockState[clientWs] = "open"
    /\ inboundCount < MaxInbound
    /\ inboundCount' = inboundCount + 1
    /\ LET k == clientWs IN
       /\ ackFrames' = [ackFrames EXCEPT
                          ![k] = IF f = "setupComplete" THEN @ + 1 ELSE @]
       /\ IF Violation(f, acked[k])
          THEN /\ badEarly' = [badEarly EXCEPT ![k] = TRUE]
               /\ protoErrors' = [protoErrors EXCEPT ![k] = @ + 1]
               /\ sockState' = [sockState EXCEPT ![k] = "closed"]
               /\ clientWs' = 0
               /\ connected' = FALSE
               /\ UNCHANGED << acked, setupCompleteEvents >>
          ELSE /\ IF f = "setupComplete" /\ AckApplied(acked[k])
                  THEN /\ acked' = [acked EXCEPT ![k] = TRUE]
                       /\ setupCompleteEvents' =
                              [setupCompleteEvents EXCEPT ![k] = @ + 1]
                  ELSE UNCHANGED << acked, setupCompleteEvents >>
               /\ UNCHANGED << badEarly, protoErrors, sockState, clientWs,
                               connected >>
    /\ UNCHANGED << connectStatus, timers, toolCalls, connectOverlap,
                    disconnectDuring, responses, dropped, captures,
                    setupFrames, mediaCalls >>

\* client.sendRealtimeInput(...), recorded.
SendRealtimeInput ==
    mediaCalls' = mediaCalls \cup
        {[n |-> Cardinality(mediaCalls) + 1,
          connected |-> connected,
          active |-> clientWs # 0 /\ Active(clientWs),
          transmitted |-> /\ clientWs # 0
                          /\ Transmits(sockState[clientWs], acked[clientWs])]}

\* onData of the tray while connected: client.sendRealtimeInput.
AudioData ==
    /\ connected
    /\ Cardinality(mediaCalls) + captures < MaxMediaCalls
    /\ SendRealtimeInput
    /\ UNCHANGED << sockState, clientWs, connected, connectStatus, timers,
                    toolCalls, connectOverlap, disconnectDuring, responses,
                    dropped, acked, captures, setupFrames,
                    setupCompleteEvents, protoErrors, badEarly, ackFrames,
                    inboundCount >>

\* sendVideoFrame while connected: the frame goes to canvas.toBlob.
VideoCapture ==
    /\ connected
    /\ Cardinality(mediaCalls) + captures < MaxMediaCalls
    /\ captures' = captures + 1
    /\ UNCHANGED << sockState, clientWs, connected, connectStatus, timers,
                    toolCalls, connectOverlap, disconnectDuring, responses,
                    dropped, acked, setupFrames, setupCompleteEvents,
                    protoErrors, badEarly, ackFrames, inboundCount,
                    mediaCalls >>

\* reader.onloadend of sendVideoFrame: client.sendRealtimeInput.
VideoReady ==
    /\ captures > 0
    /\ captures' = captures - 1
    /\ SendRealtimeInput
    /\ UNCHANGED << sockState, clientWs, connected, connectStatus, timers,
                    toolCalls, connectOverlap, disconnectDuring, responses,
                    dropped, acked, setupFrames, setupCompleteEvents,
                    protoErrors, badEarly, ackFrames, inboundCount >>


\* The tray's part of the state, `connected` excepted.
trayRest == << muted, micInitialized, micStarting, curEffect, cleaned,
               effConnected, effMuted, isActive, listening, effCall,
               sendsPerChunk, offSends >>

\* What the hook and its client leave alone.
notSessVars == << relayVars, recVars, trayRest, trackVars, playVars,
        poolVars, cfgVars, fbVars >>

SessionInit ==
    /\ RelayIdle
    /\ RecIdle
    /\ TrayInit
    /\ SessInit
    /\ TrackInit
    /\ PlayInit
    /\ PoolInit
    /\ CfgInit
    /\ FbInit

SessionNext ==
    \/ \E k \in Connects : HookConnect(k) /\ UNCHANGED notSessVars
    \/ HookDisconnect /\ UNCHANGED notSessVars
    \/ \E k \in Connects : SocketOpens(k) /\ UNCHANGED notSessVars
    \/ \E k \in Connects : SocketCloses(k) /\ UNCHANGED notSessVars
    \/ \E k \in Connects : ConnectRejects(k) /\ UNCHANGED notSessVars
    \/ \E fcs \in ToolCallIds : ToolCall(fcs) /\ UNCHANGED notSessVars
    \/ \E t \in timers : ToolTimer(t) /\ UNCHANGED notSessVars

SessionSpec == SessionInit /\ [][SessionNext]_vars

\* The client's handshake and media sends, under the hook's connect and
\* disconnect.
ClientNext ==
    \/ \E k \in Connects : HookConnect(k) /\ UNCHANGED notSessVars
    \/ HookDisconnect /\ UNCHANGED notSessVars
    \/ \E k \in Connects : SocketOpens(k) /\ UNCHANGED notSessVars
    \/ \E k \in Connects : SocketCloses(k) /\ UNCHANGED notSessVars
    \/ \E f \in InboundFrames : Inbound(f) /\ UNCHANGED notSessVars
    \/ AudioData /\ UNCHANGED notSessVars
    \/ VideoCapture /\ UNCHANGED notSessVars
    \/ VideoReady /\ UNCHANGED notSessVars

ClientSpec == SessionInit /\ [][ClientNext]_vars


(***************************************************************************)
(* App (src/unnamed/part_002), the sessionInitialized effect and the       *)
(* message tracking of useLiveAPI, and InterviewTrackingService. App       *)
(* renders LiveAPIProvider around every screen, so the hook instance and   *)
(* its ref live as long as the page; the service is a singleton. The       *)
(* effect of a render runs before the next user event, so a handler and   *)
(* the effect it causes are one step.                                      *)
(***************************************************************************)

\* startSession(topic)
StartSession(topic, n) == [topic |-> topic, interview |-> n, messages |-> << >>]

\* The sessionInitialized effect of the hook: `topic && !sessionInitialized`.
StartsSession(topic, initialized) == topic # NoTopic /\ ~initialized

\* onContent and the client.send wrapper: `topic && sessionInitialized`.
Tracks(topic, initialized) == topic # NoTopic /\ initialized

\* addMessage(role, content): nothing without a current session.
AddMessage(session, role) ==
    IF session = NoSession
    THEN session
    ELSE [session EXCEPT !.messages = Append(@, role)]

\* getLastSession()
LastSession ==
    IF Len(sessionHistory) = 0 THEN NoSession
    ELSE sessionHistory[Len(sessionHistory)]

\* The meeting screen is rendered.
MeetingShown ==
    /\ appState # "selection"
    /\ ~(appState = "feedback" /\ selectedTopic # NoTopic)

\* handleTopicSelect, then the sessionInitialized effect for the new topic.
SelectTopic(topic) ==
    /\ appState = "selection"
    /\ interviews < MaxInterviews
    /\ selectedTopic' = topic
    /\ appState' = "interview"
    /\ interviews' = interviews + 1
    /\ said' = << >>
    /\ IF StartsSession(topic, sessionInitialized)
       THEN /\ currentSession' = StartSession(topic, interviews + 1)
            /\ sessionInitialized' = TRUE
       ELSE UNCHANGED << currentSession, sessionInitialized >>
    /\ UNCHANGED << sessionHistory, messagesSaid >>

\* A text message of the user (client.send) or of the model ("content").
Converse(role) ==
    /\ MeetingShown
    /\ messagesSaid < MaxMessages
    /\ messagesSaid' = messagesSaid + 1
    /\ said' = Append(said, role)
    /\ currentSession' = IF Tracks(selectedTopic, sessionInitialized)
                         THEN AddMessage(currentSession, role)
                         ELSE currentSession
    /\ UNCHANGED << appState, selectedTopic, sessionInitialized,
                    sessionHistory, interviews >>

\* handleInterviewComplete, with endSession().
CompleteInterview ==
    /\ MeetingShown
    /\ appState' = "feedback"
    /\ IF selectedTopic # NoTopic /\ currentSession # NoSession
       THEN /\ sessionHistory' = Append(sessionHistory, currentSession)
            /\ currentSession' = NoSession
       ELSE UNCHANGED << sessionHistory, currentSession >>
    /\ UNCHANGED << selectedTopic, sessionInitialized, interviews, said,
                    messagesSaid >>

\* The "Change topic" button of the meeting screen: setSelectedTopic(null).
ChangeTopic ==
    /\ MeetingShown
    /\ selectedTopic # NoTopic
    /\ selectedTopic' = NoTopic
    /\ UNCHANGED << appState, sessionInitialized, currentSession,
                    sessionHistory, interviews, said, messagesSaid >>

\* handleRestartInterview, from the feedback screen.
RestartInterview ==
    /\ appState = "feedback"
    /\ selectedTopic # NoTopic
    /\ selectedTopic' = NoTopic
    /\ appState' = "selection"
    /\ UNCHANGED << sessionInitialized, currentSession, sessionHistory,
                    interviews, said, messagesSaid >>

\* What App and the tracking service leave alone.
notTrackVars == << relayVars, recVars, trayVars, sessVars, playVars,
        poolVars, cfgVars, fbVars >>

TrackingInit ==
    /\ RelayIdle
    /\ RecIdle
    /\ TrayInit
    /\ SessInit
    /\ TrackInit
    /\ PlayInit
    /\ PoolInit
    /\ CfgInit
    /\ FbInit

TrackingNext ==
    \/ \E topic \in Topics : SelectTopic(topic) /\ UNCHANGED notTrackVars
    \/ \E role \in Roles : Converse(role) /\ UNCHANGED notTrackVars
    \/ CompleteInterview /\ UNCHANGED notTrackVars
    \/ ChangeTopic /\ UNCHANGED notTrackVars
    \/ RestartInterview /\ UNCHANGED notTrackVars

TrackingSpec == TrackingInit /\ [][TrackingNext]_vars


(***************************************************************************)
(* The audio playback pipeline under useLiveAPI. The hook creates the      *)
(* pipeline once its audio context is there, hands every "audio" event to  *)
(* addPCM16 and every "interrupted" event to stop(), both through          *)
(* audioStreamerRef.current?. The pipeline's source is not part of these   *)
(* files; it is modelled after section 4.3 of the specification. Time is   *)
(* the audio clock in ticks.                                               *)
(***************************************************************************)

Max(a, b) == IF a >= b THEN a ELSE b

\* Mutant: a buffer always starts at the cursor, also when that is past.
StartTime_AtCursor(clock, next) == next

\* Mutant: a buffer always starts at once.
StartTime_AtOnce(clock, next) == clock

\* addPCM16: a buffer starts at max(now, cursor).
StartTime(clock, next) == Max(clock, next)

\* Mutant: the "interrupted" listener does not reach the pipeline.
ReachesStreamer_Never(ref) == FALSE

\* audioStreamerRef.current?.stop() and ?.addPCM16(): nothing without it.
ReachesStreamer(ref) == ref

\* The buffers of q that have not finished at time t.
Unfinished(q, t) == SelectSeq(q, LAMBDA b : b.start + b.dur > t)

\* audioContext(...).then(...): audioStreamerRef.current = new AudioStreamer.
StreamerReady ==
    /\ ~streamer
    /\ streamer' = TRUE
    /\ cursor' = now
    /\ justInterrupted' = FALSE
    /\ UNCHANGED << now, queue, schedule, interrupts, buffers >>

\* An "audio" event: onAudio, addPCM16.
OnAudio(dur) ==
    /\ buffers < MaxBuffers
    /\ buffers' = buffers + 1
    /\ justInterrupted' = FALSE
    /\ IF ReachesStreamer(streamer)
       THEN LET b == [id |-> buffers + 1, at |-> now,
                      start |-> StartTime(now, cursor), dur |-> dur,
                      epoch |-> interrupts]
            IN  /\ queue' = Append(queue, b)
                /\ schedule' = Append(schedule, b)
                /\ cursor' = b.start + dur
       ELSE UNCHANGED << queue, schedule, cursor >>
    /\ UNCHANGED << streamer, now, interrupts >>

\* An "interrupted" event: stopAudioStreamer, stop().
OnInterrupted ==
    /\ interrupts < MaxBuffers
    /\ interrupts' = interrupts + 1
    /\ justInterrupted' = TRUE
    /\ IF ReachesStreamer(streamer)
       THEN /\ queue' = << >>
            /\ cursor' = now
       ELSE UNCHANGED << queue, cursor >>
    /\ UNCHANGED << streamer, now, schedule, buffers >>

\* The audio clock advances; buffers that have finished leave the queue.
Tick ==
    /\ now < MaxTime
    /\ now' = now + 1
    /\ queue' = Unfinished(queue, now + 1)
    /\ justInterrupted' = FALSE
    /\ UNCHANGED << streamer, cursor, schedule, interrupts, buffers >>

\* What the playback pipeline leaves alone.
notPlayVars == << relayVars, recVars, trayVars, sessVars, trackVars,
        poolVars, cfgVars, fbVars >>

PlaybackInit ==
    /\ RelayIdle
    /\ RecIdle
    /\ TrayInit
    /\ SessInit
    /\ TrackInit
    /\ PlayInit
    /\ PoolInit
    /\ CfgInit
    /\ FbInit

PlaybackNext ==
    \/ StreamerReady /\ UNCHANGED notPlayVars
    \/ \E dur \in Durations : OnAudio(dur) /\ UNCHANGED notPlayVars
    \/ OnInterrupted /\ UNCHANGED notPlayVars
    \/ Tick /\ UNCHANGED notPlayVars

PlaybackSpec == PlaybackInit /\ [][PlaybackNext]_vars

\* ------------------------------------------------------------ properties
Contains(seq, x) == \E i \in 1..Len(seq) : seq[i] = x

IsPrefix(a, b) == Len(a) <= Len(b) /\ \A i \in 1..Len(a) : a[i] = b[i]

\* A frame the handler takes for a setup frame: it parses and has `setup`.
IsSetupFrame(f) == ~Throws(f) /\ HasSetup(f)

\* The first setup frame among the frames handled ("none" when there is none).
FirstSetup(h) ==
    IF \E i \in 1..Len(h) : IsSetupFrame(h[i])
    THEN h[CHOOSE i \in 1..Len(h) :
               IsSetupFrame(h[i]) /\ \A j \in 1..(i - 1) : ~IsSetupFrame(h[j])]
    ELSE "none"

\* C1: no client frame is sent to upstream before a setup frame has been
\* received on the client connection: whenever the relay has sent anything on
\* geminiWs, its 'message' handler has already processed a setup frame.
C1_NoFrameBeforeSetup ==
    toUpstream # << >> => \E i \in 1..Len(handled) : IsSetupFrame(handled[i])

\* C1 witness: the setup frame and a later client frame were both sent.
C1_Witness ==
    /\ Len(toUpstream) = 2
    /\ IsSetupFrame(handled[1])
    /\ toUpstream[2] = "realtime"

\* C2: the relay sends nothing on geminiWs before it has reported open, and
\* the first frame it sends there is the setup frame that opened it.
C2_SetupFirstAfterOpen ==
    /\ ~openReported => toUpstream = << >>
    /\ toUpstream # << >> =>
          /\ toUpstream[1] = FirstSetup(handled)
          /\ IsSetupFrame(toUpstream[1])

\* C2 witness: a frame was handled while geminiWs was still connecting, and
\* after the open only the setup frame has been sent.
C2_Witness ==
    /\ geminiWs = "OPEN"
    /\ Len(handled) = 2
    /\ dueForward = << >>
    /\ toUpstream = << handled[1] >>

\* C3 (as claimed): when the first frame is no setup frame or does not parse,
\* no upstream connection is ever opened for the client connection.
C3_NoUpstreamAfterBadFirst ==
    (handled # << >> /\ ~IsSetupFrame(handled[1])) => upstreamOpens = 0

\* C4 (as claimed): once geminiWs is open every frame the client sends is
\* forwarded unchanged and in order, and none of them closes the client.
C4_ForwardsEveryFrame ==
    openReported =>
        /\ toUpstream = << message >> \o dueForward
        /\ ~(closeCause.by = "message" /\ closeCause.upstream = "OPEN")

\* C5: at most one upstream connection is opened for a client connection,
\* whatever frames it sends.
C5_AtMostOneUpstream == upstreamOpens <= 1

\* C5 witness: two setup frames were handled and one connection was opened.
C5_Witness ==
    /\ Len(handled) = 2
    /\ IsSetupFrame(handled[1])
    /\ IsSetupFrame(handled[2])
    /\ upstreamOpens = 1

\* C6: when the client's first frame was a setup frame and upstream has
\* replied setupComplete, the client eventually receives setupComplete as
\* upstream sent it, as long as the client connection stays open.
C6_SetupCompleteDelivered ==
    (/\ handled # << >>
     /\ IsSetupFrame(handled[1])
     /\ Contains(upstreamQueue, "setupComplete"))
        ~> (Contains(toClient, "setupComplete") \/ wsState # "OPEN")

\* C6 witness: the setup frame came first, upstream opened, and the client
\* has been sent setupComplete.
C6_Witness ==
    /\ handled = << "setupA" >>
    /\ toUpstream = << "setupA" >>
    /\ toClient = << "setupComplete" >>
    /\ wsState = "OPEN"

\* C7: what the relay has sent to the client is, frame by frame and in order,
\* what its upstream 'message' handler received: nothing changed, duplicated
\* or invented.
C7_ClientGetsUpstreamFrames == IsPrefix(toClient, fromUpstream)

\* C7 witness: two different upstream frames were forwarded.
C7_Witness ==
    /\ Len(toClient) = 2
    /\ toClient[1] # toClient[2]

\* C8 (as claimed): an upstream close with code c and reason r that finds the
\* client connection open closes it with the same code and reason.
C8_ClosePropagates ==
    (upstreamEvent.type = "close" /\ upstreamEvent.wsOpen) =>
        /\ ~crashed
        /\ wsClose = [code |-> upstreamEvent.code,
                      reason |-> upstreamEvent.reason]

\* C9: once the client connection has closed, its upstream connection is
\* neither connecting nor open: the 'close' handler has closed it.
C9_UpstreamClosedWithClient ==
    wsState = "CLOSED" => geminiWs \notin {"CONNECTING", "OPEN"}

\* C9 witness: the client closed while geminiWs was still connecting, and
\* the handler's close() put it in CLOSING.
C9_Witness ==
    /\ wsState = "CLOSED"
    /\ geminiWs = "CLOSING"
    /\ ~openReported
    /\ ~geminiErrored

\* C10: a first frame that is no setup frame, or does not parse, closes the
\* client with a code that is neither the normal close code (1000) nor the
\* code used when upstream errors.
C10_ProtocolErrorCode ==
    (handled # << >> /\ ~IsSetupFrame(handled[1])) =>
        /\ wsState # "OPEN"
        /\ closeCause.by = "message"
        /\ closeCause.frame = handled[1]
        /\ wsClose.code \notin {1000, ErrorClose.code}

\* C10 witness: a JSON first frame without `setup` closed the client.
C10_Witness ==
    /\ handled = << "realtime" >>
    /\ wsState = "CLOSING"
    /\ wsClose = NotSetupClose

\* ---------------------------------------------- AudioRecorder properties
RefusedCalls == {c \in Calls : callKind[c] = "refused"}

\* C12: a start() made while an earlier start() is in flight does not acquire
\* the microphone again (one getUserMedia call per initialization), and it
\* settles as the start() in flight does: both fulfilled or both rejected.
C12_ConcurrentStartsShareOutcome ==
    /\ \A c \in Calls :
          callJoined[c] # 0 =>
              /\ callKind[c] # "first"
              /\ callKind[callJoined[c]] = "first"
              /\ callStatus[c] = callStatus[callJoined[c]]
    /\ getUserMediaCalls = Cardinality({c \in Calls : callKind[c] = "first"})

C12_Witness ==
    \E c, d \in Calls :
        /\ callJoined[c] # 0 /\ callStatus[c] = "fulfilled"
        /\ callJoined[d] # 0 /\ callStatus[d] = "rejected"

\* C13: once an initialization during which stop() was called has settled,
\* no microphone track is live, no stream is held and recording is false,
\* whether the initialization succeeded or failed.
C13_DeferredStopApplied ==
    (stopInFlight /\ EarliestPending = 0) =>
        /\ liveTracks = 0
        /\ ~stream
        /\ ~recording

C13_Witness ==
    /\ stopInFlight
    /\ EarliestPending = 0
    /\ getUserMediaCalls = 2
    /\ callStatus[1] = "fulfilled"
    /\ callStatus[2] = "rejected"

\* C14: a start() made after a stop() is never refused by the attempt limit
\* (stop() resets the attempt counter).
C14_StopResetsAttempts ==
    \A c \in Calls : callStopped[c] => callKind[c] # "refused"

\* C15: every start() whose initialization failed is rejected, and every
\* failed initialization emitted one "error" event (the only other "error"
\* events are those of refused calls).
C15_FailureEmitsAndRejects ==
    /\ \A c \in Calls : callFail[c] => callStatus[c] = "rejected"
    /\ errorEvents = failures + Cardinality(RefusedCalls)

C15_Witness ==
    /\ \E c \in Calls : callFail[c] /\ callKind[c] = "waiter"
    /\ \E c \in Calls : callFail[c] /\ callKind[c] = "first"
                         /\ callJoined[c] = 0
    /\ failures = 2
    /\ errorEvents = 2

\* ------------------------------------------------ ControlTray properties
\* C16: no "data" event (one captured chunk) makes more than one
\* sendRealtimeInput call.
C16_ChunkSentOnce ==
    \A i \in 1..Len(sendsPerChunk) : sendsPerChunk[i] <= 1

\* ---------------------------------------- useLiveAPI and Altair properties
\* C17: a tool response that is transmitted carries exactly the ids of its
\* tool call's function calls and goes to the session (transport) on which
\* the tool call arrived.
C17_ResponseInSameSession ==
    \A r \in responses : r.ids = r.fcs /\ r.sentOn = r.session

\* C18: whenever the feedback screen is shown, the last session of the
\* tracking service is the session of the interview just completed: started
\* at its topic selection, for its topic, holding its text messages.
C18_FeedbackFromThisInterview ==
    (appState = "feedback" /\ selectedTopic # NoTopic) =>
        /\ LastSession # NoSession
        /\ LastSession.interview = interviews
        /\ LastSession.topic = selectedTopic
        /\ LastSession.messages = said

\* C19: at most one transport of the client is open at any time.
C19_AtMostOneTransportOpen ==
    Cardinality({k \in Connects : sockState[k] = "open"}) <= 1

C19_Witness ==
    \E j, k \in Connects :
        /\ j < k
        /\ connectOverlap[k]
        /\ sockState[j] = "closed"
        /\ sockState[k] = "open"
        /\ connectStatus[j] = "rejected"

\* C20: when disconnect() ran while the latest connect() was in flight and
\* that connect() has settled, no transport is open or opening and
\* `connected` is false.
C20_DisconnectDuringConnect ==
    \A k \in Connects :
        ( /\ disconnectDuring[k]
          /\ connectStatus[k] \in {"fulfilled", "rejected"}
          /\ \A j \in Connects : j > k => connectStatus[j] = "unused" )
        => /\ \A j \in Connects : ~Live(j)
           /\ ~connected

C20_Witness ==
    \E k \in Connects :
        /\ disconnectDuring[k]
        /\ connectStatus[k] = "rejected"
        /\ \A j \in Connects : j > k => connectStatus[j] = "unused"
        /\ k > 1

C25_HandshakeRule ==
    \A k \in Connects :
        /\ badEarly[k] =>
              /\ sockState[k] = "closed"
              /\ protoErrors[k] = 1
              /\ ~acked[k]
        /\ ackFrames[k] >= 1 =>
              /\ acked[k]
              /\ ~badEarly[k]
              /\ setupCompleteEvents[k] = 1
              /\ protoErrors[k] = 0

C25_Witness ==
    /\ \E k \in Connects : ackFrames[k] = 2 /\ Active(k)
    /\ \E k \in Connects : badEarly[k]

\* ------------------------------------------- playback pipeline properties
\* C22: right after an "interrupted" event the queue is empty and the cursor
\* is the current audio-clock time, and the queue never holds (so nothing
\* plays) a buffer scheduled before the last "interrupted" event.
C22_InterruptFlushes ==
    /\ justInterrupted => queue = << >> /\ (streamer => cursor = now)
    /\ \A i \in 1..Len(queue) : queue[i].epoch = interrupts

C22_Witness ==
    /\ justInterrupted
    /\ streamer
    /\ \E i \in 1..Len(schedule) :
          /\ schedule[i].epoch = interrupts - 1
          /\ schedule[i].start + schedule[i].dur > now

\* C26: every buffer is scheduled at max(arrival time, end of the buffer
\* scheduled before it): never in the past, never overlapping its
\* predecessor, and with zero gap when it arrived before its predecessor
\* ended, so a run of such buffers ends at its start time plus its total
\* duration.
C26_BackToBack ==
    /\ \A i \in 1..Len(schedule) : schedule[i].start >= schedule[i].at
    /\ \A i \in 1..(Len(schedule) - 1) :
          LET a == schedule[i]
              b == schedule[i + 1]
          IN  a.epoch = b.epoch =>
                /\ b.start >= a.start + a.dur
                /\ b.at <= a.start + a.dur => b.start = a.start + a.dur
                /\ b.at > a.start + a.dur => b.start = b.at

C26_Witness ==
    /\ Len(schedule) = 3
    /\ schedule[1].epoch = schedule[3].epoch
    /\ schedule[2].at < schedule[1].start + schedule[1].dur
    /\ schedule[3].at < schedule[2].start + schedule[2].dur
    /\ schedule[3].start + schedule[3].dur =
          schedule[1].start + schedule[1].dur + schedule[2].dur
          + schedule[3].dur

\* ------------------------------------- AudioRecorder properties, continued
\* C23 (as claimed): a start() made while `recording` is true changes no
\* field, acquires no device, emits nothing and is not rejected.
C23_StartWhileRecording ==
    \A c \in Calls :
        callRecording[c] => callQuiet[c] /\ callStatus[c] # "rejected"

\* C23 (amended): a start() made while `recording` is true and no start() is
\* in flight changes no field, acquires no device, emits nothing and fulfils.
C23_StartWhileRecordingIdle ==
    \A c \in Calls :
        (callRecording[c] /\ callJoined[c] = 0) =>
            /\ callQuiet[c]
            /\ callStatus[c] = "fulfilled"
            /\ callKind[c] = "noop"

C23_Witness ==
    \E c \in Calls :
        /\ callRecording[c]
        /\ callJoined[c] = 0
        /\ callStatus[c] = "fulfilled"
        /\ recording
        /\ initializationAttempts = 1

\* C24: after one or more stop() calls made with no start in flight (none
\* before, or several in a row) the recorder is not recording and holds no
\* stream, source or worklet, and its fields are those left by the first
\* of these calls.
C24_StopIdempotent ==
    idleStops >= 1 =>
        /\ Fields = afterFirstStop
        /\ ~recording /\ ~stream /\ ~source
        /\ ~recordingWorklet /\ ~vuWorklet
        /\ liveTracks = 0

C24_Witness ==
    /\ idleStops = 2
    /\ callStatus[1] = "fulfilled"
    /\ callKind[1] = "first"
    /\ chunksPosted > 0

\* C28: with no start() in flight the recorder holds a stream, and a live
\* microphone track, exactly when `recording` is true.
C28_StreamIffRecording ==
    initStep = "none" =>
        /\ stream <=> recording
        /\ liveTracks = (IF recording THEN 1 ELSE 0)

C28_Witness ==
    /\ initStep = "none"
    /\ \E c \in Calls : callRecording[c] /\ callStatus[c] = "rejected"
    /\ liveTracks = 0
    /\ ~stream
    /\ getUserMediaCalls = 1

\* --------------------------------------- ControlTray properties, continued
\* C27: while the tray is muted or disconnected no chunk is passed to
\* sendRealtimeInput, and once the tray has rendered that state and no
\* start() is in flight the recorder is stopped and holds no live track.
C27_MutedMeansSilent ==
    /\ offSends = 0
    /\ (Quiet /\ (muted \/ ~connected) /\ initStep = "none") =>
           ~recording /\ liveTracks = 0

\* C30: every step in which the recorder emits "error" leaves the tray muted
\* and the recorder not recording with no start in flight.
C30_ErrorForcesMuted ==
    [][errorEvents' > errorEvents =>
           muted' /\ ~recording' /\ initStep' = "none"]_vars

C30_Witness ==
    /\ errorEvents >= 1
    /\ muted
    /\ micInitialized
    /\ ~recording
    /\ initStep = "none"
    /\ \E e \in Effects :
          effCall[e] # 0 /\ callStatus[effCall[e]] = "rejected"

\* ----------------------------------------------- relay properties, continued
\* C29: a client frame handled after the setup frame while geminiWs is not
\* yet open is dropped: nothing reaches upstream before it opens, after it
\* opens upstream has received the setup frame and at most the frames
\* handled while it was open, and no frame handled while geminiWs was
\* connecting closes the client connection.
C29_DroppedWhileConnecting ==
    /\ ~openReported => toUpstream = << >>
    /\ openReported =>
           /\ toUpstream # << >>
           /\ toUpstream[1] = message
           /\ Len(toUpstream) <= 1 + Len(dueForward)
    /\ ~(closeCause.by = "message" /\ closeCause.upstream = "CONNECTING")

\* ------------------------------- AudioRecorder properties, third part
\* C37: a start() made with nothing in flight, not recording and the attempt
\* counter at maxInitializationAttempts emits one "error" event, acquires
\* no device, changes no field (recording, stream, attempt counter) and
\* fulfils.
C37_RefusedStart ==
    \A c \in Calls :
        callAtLimit[c] =>
            /\ callErrors[c] = 1
            /\ callUntouched[c]
            /\ callStatus[c] = "fulfilled"

C37_Witness ==
    \E c \in Calls :
        /\ callAtLimit[c]
        /\ callStatus[c] = "fulfilled"
        /\ getUserMediaCalls = maxInitializationAttempts
        /\ initializationAttempts = maxInitializationAttempts

\* C33: a start() call that fulfilled, with no stop() called from the moment
\* it was made until it fulfilled, found the recorder recording with a live
\* stream held when it fulfilled.
C33_FulfilledMeansRecording ==
    \A c \in Calls :
        (callStatus[c] = "fulfilled" /\ ~callStopAfter[c]) =>
            callRecAtFulfil[c]

\* C34: no "data" event is emitted between a stop() that was applied at once
\* (nothing in flight) and the next start().
C34_SilentAfterStop ==
    [][dataEvents' > dataEvents => idleStops = 0]_vars

(***************************************************************************)
(* The relay serving the connections of Conns at once. Each handler is the *)
(* one of the single connection above, reading and writing the variables   *)
(* of the closure it was created in.                                       *)
(***************************************************************************)

\* Mutant: `geminiWs` is declared once, outside the 'connection' callback.
GeminiOf_Shared(i) == 1

\* The `geminiWs` a handler of connection i reads and assigns: the variable
\* declared in that connection's callback.
GeminiOf(i) == i

\* The `ws` the upstream handlers of connection i close over.
WsOf(i) == i

\* ws.close(...) on connection i with a code that may be sent.
PoolCloseWs(i) ==
    connWs' = [connWs EXCEPT ![i] = IF @ = "OPEN" THEN "CLOSING" ELSE @]

\* The client of connection i sends the frame f.
PoolClientSend(i, f) ==
    /\ ~exited
    /\ ~connEnded[i]
    /\ connWs[i] # "CLOSED"
    /\ poolSent < MaxPoolFrames
    /\ poolSent' = poolSent + 1
    /\ connQueue' = [connQueue EXCEPT
                       ![i] = Append(@, [conn |-> i, kind |-> f])]
    /\ UNCHANGED << connWs, connGemini, connSetup, connMessage, connEnded,
                    upQueue, upErrored, poolUpSent, sentUpstream, sentClient,
                    exited >>

\* The client of connection i closes its end.
PoolClientClose(i) ==
    /\ ~exited
    /\ ~connEnded[i]
    /\ connWs[i] # "CLOSED"
    /\ connEnded' = [connEnded EXCEPT ![i] = TRUE]
    /\ UNCHANGED << connWs, connGemini, connSetup, connMessage, connQueue,
                    upQueue, upErrored, poolSent, poolUpSent, sentUpstream,
                    sentClient, exited >>

\* The upstream of connection i sends the frame f.
PoolUpstreamSend(i, f) ==
    /\ ~exited
    /\ connGemini[i] = "OPEN"
    /\ ~upErrored[i]
    /\ poolUpSent < MaxPoolUpstream
    /\ poolUpSent' = poolUpSent + 1
    /\ upQueue' = [upQueue EXCEPT ![i] = Append(@, [conn |-> i, kind |-> f])]
    /\ UNCHANGED << connWs, connGemini, connSetup, connMessage, connQueue,
                    connEnded, upErrored, poolSent, sentUpstream, sentClient,
                    exited >>

\* ws.on('message') of connection i.
PoolMessage(i) ==
    /\ ~exited
    /\ connWs[i] # "CLOSED"
    /\ connQueue[i] # << >>
    /\ LET x == Head(connQueue[i])
           g == GeminiOf(i)
       IN  /\ connQueue' = [connQueue EXCEPT ![i] = Tail(@)]
           /\ IF Throws(x.kind)
              THEN /\ PoolCloseWs(i)
                   /\ UNCHANGED << connGemini, connSetup, connMessage,
                                   sentUpstream >>
              ELSE IF SetupBranch(x.kind, connSetup[i])
              THEN /\ connSetup' = [connSetup EXCEPT ![i] = TRUE]
                   /\ connGemini' = [connGemini EXCEPT ![g] = "CONNECTING"]
                   /\ connMessage' = [connMessage EXCEPT ![g] = x]
                   /\ UNCHANGED << connWs, sentUpstream >>
              ELSE IF CanForward(connGemini[g])
              THEN /\ sentUpstream' = [sentUpstream EXCEPT ![g] = Append(@, x)]
                   /\ UNCHANGED << connWs, connGemini, connSetup,
                                   connMessage >>
              ELSE IF ~connSetup[i]
              THEN /\ PoolCloseWs(i)
                   /\ UNCHANGED << connGemini, connSetup, connMessage,
                                   sentUpstream >>
              ELSE UNCHANGED << connWs, connGemini, connSetup, connMessage,
                                sentUpstream >>
    /\ UNCHANGED << connEnded, upQueue, upErrored, poolSent, poolUpSent,
                    sentClient, exited >>

\* ws.on('close') of connection i.
PoolWsClose(i) ==
    /\ ~exited
    /\ connWs[i] # "CLOSED"
    /\ connEnded[i] \/ connWs[i] = "CLOSING"
    /\ connQueue[i] = << >>
    /\ connWs' = [connWs EXCEPT ![i] = "CLOSED"]
    /\ connGemini' = [connGemini EXCEPT
                         ![GeminiOf(i)] = AfterClientClose(@)]
    /\ UNCHANGED << connSetup, connMessage, connQueue, connEnded, upQueue,
                    upErrored, poolSent, poolUpSent, sentUpstream, sentClient,
                    exited >>

\* geminiWs.on('open') of connection i.
PoolGeminiOpen(i) ==
    /\ ~exited
    /\ connGemini[i] = "CONNECTING"
    /\ connGemini' = [connGemini EXCEPT ![i] = "OPEN"]
    /\ sentUpstream' = [sentUpstream EXCEPT ![i] = Append(@, connMessage[i])]
    /\ UNCHANGED << connWs, connSetup, connMessage, connQueue, connEnded,
                    upQueue, upErrored, poolSent, poolUpSent, sentClient,
                    exited >>

\* geminiWs.on('message') of connection i.
PoolGeminiMessage(i) ==
    /\ ~exited
    /\ connGemini[i] \in {"OPEN", "CLOSING"}
    /\ ~upErrored[i]
    /\ upQueue[i] # << >>
    /\ LET x == Head(upQueue[i])
           w == WsOf(i)
       IN  /\ upQueue' = [upQueue EXCEPT ![i] = Tail(@)]
           /\ sentClient' =
                 [sentClient EXCEPT
                    ![w] = SentToClient(connWs[w], @,
                                        [conn |-> x.conn,
                                         kind |-> Forwarded(x.kind)])]
    /\ UNCHANGED << connWs, connGemini, connSetup, connMessage, connQueue,
                    connEnded, upErrored, poolSent, poolUpSent, sentUpstream,
                    exited >>

\* geminiWs.on('error') of connection i.
PoolGeminiError(i) ==
    /\ ~exited
    /\ connGemini[i] \in {"CONNECTING", "OPEN", "CLOSING"}
    /\ ~upErrored[i]
    /\ upErrored' = [upErrored EXCEPT ![i] = TRUE]
    /\ connGemini' = [connGemini EXCEPT ![i] = "CLOSING"]
    /\ upQueue' = [upQueue EXCEPT ![i] = << >>]
    /\ PoolCloseWs(WsOf(i))
    /\ UNCHANGED << connSetup, connMessage, connQueue, connEnded, poolSent,
                    poolUpSent, sentUpstream, sentClient, exited >>

\* geminiWs.on('close', (code, reason)) of connection i: a code that may not
\* be sent makes ws.close throw, which ends the process and every connection.
PoolGeminiClose(i, e) ==
    /\ ~exited
    /\ connGemini[i] \in {"OPEN", "CLOSING"}
    /\ upQueue[i] = << >>
    /\ connGemini' = [connGemini EXCEPT ![i] = "CLOSED"]
    /\ IF CloseThrows(connWs[WsOf(i)], PropagatedClose(e.code, e.reason))
       THEN /\ exited' = TRUE
            /\ connWs' = [j \in Conns |-> "CLOSED"]
            /\ connQueue' = [j \in Conns |-> << >>]
       ELSE /\ PoolCloseWs(WsOf(i))
            /\ UNCHANGED << exited, connQueue >>
    /\ UNCHANGED << connSetup, connMessage, connEnded, upQueue, upErrored,
                    poolSent, poolUpSent, sentUpstream, sentClient >>

PoolSpecInit ==
    /\ RelayIdle
    /\ RecIdle
    /\ TrayInit
    /\ SessInit
    /\ TrackInit
    /\ PlayInit
    /\ PoolInit
    /\ CfgInit
    /\ FbInit

\* What the connections of the pool leave alone.
notPoolVars == << relayVars, recVars, trayVars, sessVars, trackVars,
                 playVars, cfgVars, fbVars >>

PoolNext ==
    \/ \E i \in Conns, f \in PoolFrames :
          PoolClientSend(i, f) /\ UNCHANGED notPoolVars
    \/ \E i \in Conns : PoolClientClose(i) /\ UNCHANGED notPoolVars
    \/ \E i \in Conns, f \in PoolUpstreamFrames :
          PoolUpstreamSend(i, f) /\ UNCHANGED notPoolVars
    \/ \E i \in Conns : PoolMessage(i) /\ UNCHANGED notPoolVars
    \/ \E i \in Conns : PoolWsClose(i) /\ UNCHANGED notPoolVars
    \/ \E i \in Conns : PoolGeminiOpen(i) /\ UNCHANGED notPoolVars
    \/ \E i \in Conns : PoolGeminiMessage(i) /\ UNCHANGED notPoolVars
    \/ \E i \in Conns : PoolGeminiError(i) /\ UNCHANGED notPoolVars
    \/ \E i \in Conns, e \in UpstreamCloses :
          PoolGeminiClose(i, e) /\ UNCHANGED notPoolVars

PoolSpec == PoolSpecInit /\ [][PoolNext]_vars

\* C35: every frame the relay has sent on the upstream connection of a
\* client connection was received from that client, and every frame it has
\* sent on a client connection was received from that connection's upstream.
C35_ConnectionsIsolated ==
    \A i \in Conns :
        /\ \A n \in 1..Len(sentUpstream[i]) : sentUpstream[i][n].conn = i
        /\ \A n \in 1..Len(sentClient[i]) : sentClient[i][n].conn = i

C35_Witness ==
    /\ \A i \in Conns : Len(sentUpstream[i]) >= 1
    /\ \E i \in Conns : Len(sentUpstream[i]) = 2
    /\ \E i \in Conns : /\ Len(sentClient[i]) = 1
                         /\ connGemini[3 - i] = "OPEN"


(***************************************************************************)
(* The config under App. The Altair component is rendered on the meeting  *)
(* screen only; its effect ([setConfig]) runs when it mounts and replaces  *)
(* the config of the hook. connect() hands the config of the current       *)
(* render to client.connect, which builds the setup frame from it.         *)
(***************************************************************************)

\* The config the Altair effect sets: its instruction is the module-level
\* interviewSystemPrompt, the same text for every topic.
AltairConfig == "coach"

\* The meeting screen, and with it the Altair component, mounts in this step.
AltairMounts == MeetingShown' /\ ~MeetingShown

\* A step of App, with the Altair effect of the render it causes.
AppStep(A) ==
    /\ A
    /\ config' = IF AltairMounts THEN AltairConfig ELSE config
    /\ UNCHANGED setupSent

\* connect() of the hook, from the meeting screen's tray.
ConfigConnect ==
    /\ MeetingShown
    /\ Len(setupSent) < MaxSetups
    /\ setupSent' = Append(setupSent,
                           [topic |-> selectedTopic, instruction |-> config])
    /\ UNCHANGED << config, trackVars >>

\* What App, the tracking service and the config leave alone.
notCfgVars == << relayVars, recVars, trayVars, sessVars, playVars, poolVars,
                 fbVars >>

ConfigInit ==
    /\ RelayIdle
    /\ RecIdle
    /\ TrayInit
    /\ SessInit
    /\ TrackInit
    /\ PlayInit
    /\ PoolInit
    /\ CfgInit
    /\ FbInit

ConfigNext ==
    \/ \E topic \in Topics :
          AppStep(SelectTopic(topic)) /\ UNCHANGED notCfgVars
    \/ \E role \in Roles : AppStep(Converse(role)) /\ UNCHANGED notCfgVars
    \/ AppStep(CompleteInterview) /\ UNCHANGED notCfgVars
    \/ AppStep(ChangeTopic) /\ UNCHANGED notCfgVars
    \/ AppStep(RestartInterview) /\ UNCHANGED notCfgVars
    \/ ConfigConnect /\ UNCHANGED notCfgVars

ConfigSpec == ConfigInit /\ [][ConfigNext]_vars

\* C31: when a topic is selected before connect() is called, the setup
\* frame's config carries a system instruction that names that topic.
C31_SetupNamesTopic ==
    \A n \in 1..Len(setupSent) :
        setupSent[n].topic # NoTopic =>
            setupSent[n].instruction = setupSent[n].topic


(***************************************************************************)
(* The feedback screen. Its effect takes getLastSession() and, after a     *)
(* timer, runs getFeedback: first evaluateInterview of gemini-evaluator,   *)
(* which answers with mockEvaluationResponse, and only when that gives     *)
(* null generateFeedback of the tracking service. A session is its         *)
(* duration and the role and content length of each message; the draw of   *)
(* Math.random for each category is an input.                              *)
(***************************************************************************)

Min(a, b) == IF a <= b THEN a ELSE b

FbMessage == [role : Roles, length : ContentLengths]

FbSessions ==
    [duration : SessionDurations,
     messages : UNION {[1..k -> FbMessage] : k \in 0..MaxFbMessages},
     ended : {TRUE}]

\* messages.filter(msg => msg.role === 'user')
UserMessages(messages) == SelectSeq(messages, LAMBDA m : m.role = "user")

\* userMessages.reduce((sum, msg) => sum + msg.content.length, 0)
RECURSIVE TotalLength(_)
TotalLength(messages) ==
    IF messages = << >> THEN 0
    ELSE Head(messages).length + TotalLength(Tail(messages))

\* isInterviewSubstantial(session); the average is a quotient of reals, so
\* `average < 10` is `total < 10 * count`.
IsInterviewSubstantial(session) ==
    LET userMessages == UserMessages(session.messages)
    IN  IF session.duration < MinimumInterviewDuration THEN FALSE
        ELSE IF Len(userMessages) < MinimumUserMessages THEN FALSE
        ELSE IF TotalLength(userMessages)
                    < MinimumAverageLength * Len(userMessages) THEN FALSE
        ELSE TRUE

\* The result of generateFeedback for a session that is not substantial.
TooBriefFeedback == [overallScore |-> 0, categoryScores |-> << >>]

\* mockEvaluationResponse(request), as evaluateInterview converts it.
MockEvaluationResponse(messages, variation) ==
    LET messageCount == Len(UserMessages(messages))
        baseScore == Min(95, Max(70, 65 + messageCount * 2))
        isCovered(index) == messageCount > 3 + (index % 2)
        score(index) ==
            IF isCovered(index)
            THEN Min(100, Max(65, baseScore + variation[index]))
            ELSE 0
        coveredCategories == {index \in Categories : isCovered(index)}
        total == score(0) + score(1) + score(2) + score(3) + score(4)
    IN  [overallScore |->
             IF Cardinality(coveredCategories) > 0
             THEN total \div Cardinality(coveredCategories)
             ELSE 75,
         categoryScores |->
             [n \in 1..5 |-> [score |-> score(n - 1),
                              notCovered |-> ~isCovered(n - 1)]]]

\* evaluateInterview(session): null for no session only.
EvaluateInterview(session, variation) ==
    IF session = NoFbSession THEN NoFeedback
    ELSE MockEvaluationResponse(session.messages, variation)

\* The local calculation of generateFeedback, at its defaults.
LocalFeedback ==
    [overallScore |-> 75,
     categoryScores |-> [n \in 1..5 |-> [score |-> 75, notCovered |-> TRUE]]]

\* generateFeedback()
GenerateFeedback(session) ==
    IF session = NoFbSession THEN NoFeedback
    ELSE IF ~IsInterviewSubstantial(session) THEN TooBriefFeedback
    ELSE LocalFeedback

\* getFeedback() of the screen: the feedback it sets.
GetFeedback(session, variation) ==
    LET aiFeedback == EvaluateInterview(session, variation)
    IN  IF aiFeedback # NoFeedback THEN aiFeedback
        ELSE GenerateFeedback(session)

\* The feedback screen mounts after an interview and shows its feedback.
ShowFeedback(session, variation) ==
    /\ fbSession = NoFbSession
    /\ fbSession' = session
    /\ fbShown' = GetFeedback(session, variation)

\* handleRestartInterview: the screen unmounts.
CloseFeedback ==
    /\ fbSession # NoFbSession
    /\ fbSession' = NoFbSession
    /\ fbShown' = NoFeedback

notFbVars == << relayVars, recVars, trayVars, sessVars, trackVars, playVars,
                poolVars, cfgVars >>

FeedbackInit ==
    /\ RelayIdle
    /\ RecIdle
    /\ TrayInit
    /\ SessInit
    /\ TrackInit
    /\ PlayInit
    /\ PoolInit
    /\ CfgInit
    /\ FbInit

FeedbackNext ==
    \/ \E session \in FbSessions, variation \in [Categories -> Variations] :
          ShowFeedback(session, variation) /\ UNCHANGED notFbVars
    \/ CloseFeedback /\ UNCHANGED notFbVars

FeedbackSpec == FeedbackInit /\ [][FeedbackNext]_vars

\* C32: for a last session under 60 seconds, with fewer than 3 user
\* messages or with user messages averaging under 10 characters, the
\* feedback screen gets the too-brief result: overall score 0 and no
\* category scores.
C32_TooBriefResult ==
    (fbSession # NoFbSession /\ ~IsInterviewSubstantial(fbSession))
        => fbShown = TooBriefFeedback


(***************************************************************************)
(* The tray under fair scheduling. React runs the cleanup and the next     *)
(* run of an effect once a render with changed dependencies is committed;  *)
(* a permission request and the recorder's initialization settle, one way  *)
(* or the other. Nothing obliges the user or the session to act.           *)
(***************************************************************************)

\* The steps of the tray that happen without anyone's doing.
TrayEffectStep == (EffectCleanup \/ EffectRun) /\ UNCHANGED notTrayVars

TrayPermissionStep ==
    \E granted \in BOOLEAN : MicPermission(granted) /\ UNCHANGED notTrayVars

TrayRecorderStep ==
    /\ Quiet
    /\ \/ \E suspended \in BOOLEAN : RecInitStep(suspended)
       \/ RecInitFail
    /\ TrayAfterRecorder
    /\ UNCHANGED notTrayVars

TrayFairSpec ==
    /\ TraySpec
    /\ WF_vars(TrayEffectStep)
    /\ WF_vars(TrayPermissionStep)
    /\ WF_vars(TrayRecorderStep)

\* The session is connected, the microphone is unmuted and the permission
\* has been granted.
ReadyToRecord == connected /\ ~muted /\ micInitialized

\* The latest run of the audio recording effect has called start().
StartRequested == effCall[curEffect] # 0

\* C36: once the session is connected, the microphone unmuted and the
\* permission granted, the recorder is eventually started (or one of the
\* three ceases to hold), in whichever order connection and grant came.
C36_EventuallyStarted ==
    (ReadyToRecord /\ curEffect < MaxEffects)
        ~> (StartRequested \/ ~ReadyToRecord)

====
